---------------------------- MODULE Spec2Model ----------------------------
(***************************************************************************)
(* A model of RoaringsPronounCorrector: the pronoun directory with its     *)
(* cache (fetchPronouns), the mismatch detector and the text rewriter      *)
(* (detectPronounMismatches, correctPronouns), the contextual scanner      *)
(* (parseContextualPronouns, shouldCorrect), the DuplicateTracker and the  *)
(* message interceptor of the plugin.                                      *)
(*                                                                         *)
(* A JavaScript string is modelled as a sequence of one-character strings, *)
(* positions are 0-based as in the source.                                 *)
(***************************************************************************)
EXTENDS Integers, Sequences, FiniteSets, TLC

(***************************************************************************)
(* Characters and strings                                                  *)
(***************************************************************************)
LowerLetters == <<"a", "b", "c", "d", "e", "f", "g", "h", "i", "j", "k", "l", "m", "n", "o", "p", "q", "r", "s", "t", "u", "v", "w", "x", "y", "z">>
UpperLetters == <<"A", "B", "C", "D", "E", "F", "G", "H", "I", "J", "K", "L", "M", "N", "O", "P", "Q", "R", "S", "T", "U", "V", "W", "X", "Y", "Z">>
Digits == <<"0", "1", "2", "3", "4", "5", "6", "7", "8", "9">>

Range(s) == {s[i] : i \in 1..Len(s)}

toLowerTable == [c \in Range(UpperLetters) |-> LowerLetters[CHOOSE i \in 1..26 : UpperLetters[i] = c]]
toUpperTable == [c \in Range(LowerLetters) |-> UpperLetters[CHOOSE i \in 1..26 : LowerLetters[i] = c]]

\* String.prototype.toLowerCase / toUpperCase on one character (ASCII)
toLowerChar(c) == IF c \in DOMAIN toLowerTable THEN toLowerTable[c] ELSE c
toUpperChar(c) == IF c \in DOMAIN toUpperTable THEN toUpperTable[c] ELSE c
toLowerCase(s) == [i \in 1..Len(s) |-> toLowerChar(s[i])]
toUpperCase(s) == [i \in 1..Len(s) |-> toUpperChar(s[i])]

\* the regular expression classes \w, \W and \s
WordChars == Range(LowerLetters) \cup Range(UpperLetters) \cup Range(Digits) \cup {"_"}
IsWordChar(c) == c \in WordChars
IsSpaceChar(c) == c \in {" ", "\n", "\t"}

Min(a, b) == IF a < b THEN a ELSE b
Max(a, b) == IF a > b THEN a ELSE b
Abs(a) == IF a < 0 THEN 0 - a ELSE a

\* String.prototype.slice(a, b) for 0 <= a, with the end clamped to the length
Slice(s, a, b) == SubSeq(s, a + 1, Min(b, Len(s)))
SliceFrom(s, a) == SubSeq(s, a + 1, Len(s))

\* s has the literal t at 0-based position i
HasAt(s, i, t) == /\ i >= 0
                  /\ i + Len(t) <= Len(s)
                  /\ \A k \in 1..Len(t) : s[i + k] = t[k]

\* the same, ignoring case (the i flag)
HasAtIgnoreCase(s, i, t) == /\ i >= 0
                            /\ i + Len(t) <= Len(s)
                            /\ \A k \in 1..Len(t) : toLowerChar(s[i + k]) = t[k]

\* \b at 0-based offset i of s (between s[i-1] and s[i] in JS terms)
WordBoundary(s, i) ==
    LET before == i >= 1 /\ i <= Len(s) /\ IsWordChar(s[i])
        after == i >= 0 /\ i < Len(s) /\ IsWordChar(s[i + 1])
    IN before # after

\* \b(w)\b matches at 0-based position i, case-insensitively
WordAt(s, i, w) == /\ HasAtIgnoreCase(s, i, w)
                   /\ WordBoundary(s, i)
                   /\ WordBoundary(s, i + Len(w))

RECURSIVE SetToSortedSeq(_)
SetToSortedSeq(S) ==
    IF S = {} THEN <<>>
    ELSE LET m == CHOOSE x \in S : \A y \in S : x <= y
         IN <<m>> \o SetToSortedSeq(S \ {m})

RECURSIVE ConcatAll(_)
ConcatAll(ss) == IF ss = <<>> THEN <<>> ELSE Head(ss) \o ConcatAll(Tail(ss))

\* the positions of all matches of /\b(w1|w2|...)\b/gi in s, ascending
WordMatchPositions(s, words) ==
    SetToSortedSeq({i \in 0..(Len(s) - 1) : \E w \in words : WordAt(s, i, w)})

\* the alternative that matched at position i
MatchedWord(s, i, words) == CHOOSE w \in words : WordAt(s, i, w)


(***************************************************************************)
(* String constants of the source                                          *)
(***************************************************************************)
s_unspecified == <<"u", "n", "s", "p", "e", "c", "i", "f", "i", "e", "d">>
s_any_pronouns == <<"a", "n", "y", " ", "p", "r", "o", "n", "o", "u", "n", "s">>
s_other_pronouns == <<"o", "t", "h", "e", "r", " ", "p", "r", "o", "n", "o", "u", "n", "s">>
s_ask_for_pronouns == <<"a", "s", "k", " ", "f", "o", "r", " ", "p", "r", "o", "n", "o", "u", "n", "s">>
s_avoid_pronouns == <<"a", "v", "o", "i", "d", " ", "p", "r", "o", "n", "o", "u", "n", "s">>
s_he_him == <<"h", "e", "/", "h", "i", "m">>
s_she_her == <<"s", "h", "e", "/", "h", "e", "r">>
s_they_them == <<"t", "h", "e", "y", "/", "t", "h", "e", "m">>
s_it_its == <<"i", "t", "/", "i", "t", "s">>
s_he == <<"h", "e">>
s_him == <<"h", "i", "m">>
s_his == <<"h", "i", "s">>
s_himself == <<"h", "i", "m", "s", "e", "l", "f">>
s_she == <<"s", "h", "e">>
s_her == <<"h", "e", "r">>
s_hers == <<"h", "e", "r", "s">>
s_herself == <<"h", "e", "r", "s", "e", "l", "f">>
s_they == <<"t", "h", "e", "y">>
s_them == <<"t", "h", "e", "m">>
s_their == <<"t", "h", "e", "i", "r">>
s_theirs == <<"t", "h", "e", "i", "r", "s">>
s_themselves == <<"t", "h", "e", "m", "s", "e", "l", "v", "e", "s">>
s_themself == <<"t", "h", "e", "m", "s", "e", "l", "f">>
s_it == <<"i", "t">>
s_its == <<"i", "t", "s">>
s_itself == <<"i", "t", "s", "e", "l", "f">>

(***************************************************************************)
(* pronounAutoCorrect.ts: the pronoun-set table and the detector           *)
(***************************************************************************)
Roles == <<"subject", "object", "possessive", "possessiveObject", "reflexive">>

\* the keys of PRONOUN_SETS in insertion order
PRONOUN_SET_KEYS == <<s_he_him, s_she_her, s_they_them, s_it_its>>

PRONOUN_SETS ==
    [k \in Range(PRONOUN_SET_KEYS) |->
        CASE k = s_he_him ->
               [subject |-> <<s_he>>, object |-> <<s_him>>, possessive |-> <<s_his>>,
                possessiveObject |-> <<s_his>>, reflexive |-> <<s_himself>>]
          [] k = s_she_her ->
               [subject |-> <<s_she>>, object |-> <<s_her>>, possessive |-> <<s_her>>,
                possessiveObject |-> <<s_hers>>, reflexive |-> <<s_herself>>]
          [] k = s_they_them ->
               [subject |-> <<s_they>>, object |-> <<s_them>>, possessive |-> <<s_their>>,
                possessiveObject |-> <<s_theirs>>, reflexive |-> <<s_themselves, s_themself>>]
          [] k = s_it_its ->
               [subject |-> <<s_it>>, object |-> <<s_it>>, possessive |-> <<s_its>>,
                possessiveObject |-> <<s_its>>, reflexive |-> <<s_itself>>]]

\* the first 0-based position j >= from at which the literal t occurs in s, or -1
RECURSIVE IndexOfFrom(_, _, _)
IndexOfFrom(s, t, from) ==
    IF from + Len(t) > Len(s) THEN -1
    ELSE IF HasAt(s, from, t) THEN from
    ELSE IndexOfFrom(s, t, from + 1)

\* the backquote character (U+0060), which a TLA+ string cannot hold
BQ == "BACKQUOTE"
Fence == <<BQ, BQ, BQ>>
Backtick == <<BQ>>

\* s.replace(fenced code regions, ""), the lazy match between two triple backquotes,
\* scanning from 0-based position i
RECURSIVE StripFencesFrom(_, _)
StripFencesFrom(s, i) ==
    IF i >= Len(s) THEN <<>>
    ELSE LET close == IF HasAt(s, i, Fence) THEN IndexOfFrom(s, Fence, i + 3) ELSE -1
         IN IF close >= 0 THEN StripFencesFrom(s, close + 3)
            ELSE <<s[i + 1]>> \o StripFencesFrom(s, i + 1)

\* s.replace(inline code spans, ""): a backquote, one or more other characters, a
\* backquote, scanning from 0-based position i
RECURSIVE StripInlineCodeFrom(_, _)
StripInlineCodeFrom(s, i) ==
    IF i >= Len(s) THEN <<>>
    ELSE LET close == IF s[i + 1] = BQ THEN IndexOfFrom(s, Backtick, i + 1) ELSE -1
         IN IF close >= i + 2 THEN StripInlineCodeFrom(s, close + 1)
            ELSE <<s[i + 1]>> \o StripInlineCodeFrom(s, i + 1)

\* the end (exclusive) of the run [^\n]+ that starts at 0-based position i
RECURSIVE LineRunEnd(_, _)
LineRunEnd(s, i) ==
    IF i >= Len(s) \/ s[i + 1] = "\n" THEN i ELSE LineRunEnd(s, i + 1)

\* s.replace(/>[^\n]+/gm, ""), scanning from 0-based position i
RECURSIVE StripQuotesFrom(_, _)
StripQuotesFrom(s, i) ==
    IF i >= Len(s) THEN <<>>
    ELSE IF s[i + 1] = ">" /\ LineRunEnd(s, i + 1) > i + 1
         THEN StripQuotesFrom(s, LineRunEnd(s, i + 1))
         ELSE <<s[i + 1]>> \o StripQuotesFrom(s, i + 1)

\* the replace call for inline code spans left out
StripIgnorable_NoInlineCode(s) ==
    StripQuotesFrom(StripFencesFrom(s, 0), 0)

\* the three replace calls applied when skipQuotedText / skipQuotes is set
StripIgnorable(s) ==
    StripQuotesFrom(StripInlineCodeFrom(StripFencesFrom(s, 0), 0), 0)

\* the mention pattern <@!?userId> matches at 0-based position i; the length matched
MentionLenAt(s, i, uid) ==
    IF HasAt(s, i, <<"<", "@">> \o uid \o <<">">>) THEN Len(uid) + 3
    ELSE IF HasAt(s, i, <<"<", "@", "!">> \o uid \o <<">">>) THEN Len(uid) + 4
    ELSE 0

\* the indices of Array.from(processedContent.matchAll(mentionPattern))
MentionPositions(s, uid) ==
    SetToSortedSeq({i \in 0..(Len(s) - 1) : MentionLenAt(s, i, uid) > 0})

VerbList == {<<"i", "s">>, <<"w", "a", "s">>, <<"w", "i", "l", "l">>, <<"c", "a", "n">>,
             <<"s", "h", "o", "u", "l", "d">>, <<"w", "o", "u", "l", "d">>, <<"h", "a", "s">>,
             <<"h", "a", "d">>, <<"g", "o", "e", "s">>, <<"w", "e", "n", "t">>,
             <<"s", "a", "y", "s">>, <<"s", "a", "i", "d">>}

\* /\b(is|was|will|can|should|would|has|had|goes|went|says|said)\b/i.test(s)
HasVerb(s) == \E i \in 0..(Len(s) - 1) : \E v \in VerbList : WordAt(s, i, v)

\* Object.values(PRONOUN_SETS).flatMap(set => set[type]).filter(p => !correctOptions.includes(p))
allPronounsOfType(type, correctOptions) ==
    LET all == ConcatAll([k \in 1..Len(PRONOUN_SET_KEYS) |-> PRONOUN_SETS[PRONOUN_SET_KEYS[k]][type]])
    IN SelectSeq(all, LAMBDA p : p \notin Range(correctOptions))

typeMapping ==
    [w \in {s_he, s_she, s_they, s_it, s_him, s_her, s_them, s_his, s_hers, s_theirs, s_its,
            s_himself, s_herself, s_themselves, s_themself, s_itself} |->
        CASE w \in {s_he, s_she, s_they, s_it} -> "subject"
          [] w \in {s_him, s_her, s_them} -> "object"
          [] w \in {s_his, s_its} -> "possessive"
          [] w \in {s_hers, s_theirs} -> "possessiveObject"
          [] OTHER -> "reflexive"]

findBestCorrection(wrongPronoun, correctSet) ==
    LET wrong == toLowerCase(wrongPronoun)
    IN IF wrong \in DOMAIN typeMapping /\ Len(correctSet[typeMapping[wrong]]) > 0
       THEN correctSet[typeMapping[wrong]][1]
       ELSE IF Len(correctSet.subject) > 0 THEN correctSet.subject[1] ELSE wrongPronoun

\* options.confidenceThreshold || 70 (0 stands for an absent or zero option)
DEFAULT_THRESHOLD == 70
\* no floor at all
EffectiveThreshold_None(options) == 0

EffectiveThreshold(options) ==
    IF options.confidenceThreshold = 0 THEN DEFAULT_THRESHOLD ELSE options.confidenceThreshold

\* the confidence of a match, in tenths: Math.max(60, 100 - distance / 10), +15 near a verb
Confidence10(distanceFromMention, surroundingText) ==
    Max(600, 1000 - distanceFromMention) + (IF HasVerb(surroundingText) THEN 150 ELSE 0)

\* Math.round of a non-negative number given in tenths
RoundTenths(x10) == (x10 + 5) \div 10

WINDOW_BEFORE == 100
WINDOW_AFTER == 300
SURROUND == 20

\* the mismatches pushed by the while loop over wrongPronounPattern.exec(contextArea)
MismatchesOfType(processedContent, mentionPos, type, correctSet, options) ==
    LET searchStart == Max(0, mentionPos - WINDOW_BEFORE)
        searchEnd == Min(Len(processedContent), mentionPos + WINDOW_AFTER)
        contextArea == Slice(processedContent, searchStart, searchEnd)
        wrongs == Range(allPronounsOfType(type, correctSet[type]))
        found == IF wrongs = {} THEN <<>> ELSE WordMatchPositions(contextArea, wrongs)
        entry(idx) ==
            LET matched == MatchedWord(contextArea, idx, wrongs)
                wrongPronoun == matched
                absolutePosition == searchStart + idx
                surroundingText == Slice(contextArea, Max(0, idx - SURROUND),
                                         Min(Len(contextArea), idx + Len(matched) + SURROUND))
                conf10 == Confidence10(Abs(absolutePosition - mentionPos), surroundingText)
            IN [wrongPronoun |-> wrongPronoun,
                correctPronoun |-> findBestCorrection(wrongPronoun, correctSet),
                position |-> absolutePosition,
                context |-> surroundingText,
                confidence |-> RoundTenths(conf10),
                keep |-> conf10 >= 10 * EffectiveThreshold(options)]
        all == [k \in 1..Len(found) |-> entry(found[k])]
        kept == SelectSeq(all, LAMBDA m : m.keep)
    IN [k \in 1..Len(kept) |->
          [wrongPronoun |-> kept[k].wrongPronoun, correctPronoun |-> kept[k].correctPronoun,
           position |-> kept[k].position, context |-> kept[k].context,
           confidence |-> kept[k].confidence]]

detectPronounMismatches(text, uid, label, options) ==
    IF label = s_unspecified \/ label = s_any_pronouns THEN <<>>
    ELSE LET processedContent == IF options.skipQuotedText THEN StripIgnorable(text) ELSE text
             key == toLowerCase(label)
         IN IF key \notin DOMAIN PRONOUN_SETS THEN <<>>
            ELSE LET correctSet == PRONOUN_SETS[key]
                     mentionMatches == MentionPositions(processedContent, uid)
                 IN ConcatAll([m \in 1..Len(mentionMatches) |->
                        ConcatAll([t \in 1..Len(Roles) |->
                            MismatchesOfType(processedContent, mentionMatches[m],
                                             Roles[t], correctSet, options)])])

(***************************************************************************)
(* pronounAutoCorrect.ts: the rewriter                                     *)
(***************************************************************************)
\* insert m into a list sorted by descending position, after every element that does
\* not come after it (Array.prototype.sort is stable)
RECURSIVE InsertDescending(_, _)
InsertDescending(sorted, m) ==
    IF sorted = <<>> THEN <<m>>
    ELSE IF Head(sorted).position >= m.position
         THEN <<Head(sorted)>> \o InsertDescending(Tail(sorted), m)
         ELSE <<m>> \o sorted

\* correction.mismatches.sort((a, b) => b.position - a.position)
RECURSIVE SortDescending(_)
SortDescending(ms) ==
    IF ms = <<>> THEN <<>>
    ELSE InsertDescending(SortDescending(SubSeq(ms, 1, Len(ms) - 1)), ms[Len(ms)])

\* the title-case test made before the all-caps test
preserveCase_TitleFirst(original, replacement) ==
    IF original[1] = toUpperChar(original[1])
    THEN <<toUpperChar(replacement[1])>> \o toLowerCase(SliceFrom(replacement, 1))
    ELSE IF original = toUpperCase(original) THEN toUpperCase(replacement)
         ELSE toLowerCase(replacement)

preserveCase(original, replacement) ==
    IF original = toUpperCase(original) THEN toUpperCase(replacement)
    ELSE IF original[1] = toUpperChar(original[1])
         THEN <<toUpperChar(replacement[1])>> \o toLowerCase(SliceFrom(replacement, 1))
         ELSE toLowerCase(replacement)

\* /\W/.test(text[p]) for the character read at 0-based index p; an index past the
\* end reads undefined, which test() turns into the word "undefined"
NonWordAt(text, p) == p >= 0 /\ p < Len(text) /\ ~IsWordChar(text[p + 1])

IsWholeWord(text, position, len) ==
    /\ (position > 0 => NonWordAt(text, position - 1))
    /\ (position + len < Len(text) => NonWordAt(text, position + len))

\* the for loop of correctPronouns over sortedMismatches[k..]
RECURSIVE ApplyMismatches(_, _, _, _)
ApplyMismatches(text, sorted, k, acc) ==
    IF k > Len(sorted) THEN acc
    ELSE LET m == sorted[k]
             len == Len(m.wrongPronoun)
         IN IF IsWholeWord(text, m.position, len)
            THEN LET originalCase == Slice(text, m.position, m.position + len)
                     correctedPronoun == preserveCase(originalCase, m.correctPronoun)
                 IN ApplyMismatches(text, sorted, k + 1,
                      [correctedText |-> Slice(acc.correctedText, 0, m.position)
                                         \o correctedPronoun
                                         \o SliceFrom(acc.correctedText, m.position + len),
                       correctedWords |-> Append(acc.correctedWords,
                            [original |-> originalCase, corrected |-> correctedPronoun,
                             position |-> m.position])])
            ELSE ApplyMismatches(text, sorted, k + 1, acc)

\* the mismatches applied in the order they were passed in, without the sort
correctPronouns_Unsorted(text, ms) ==
    ApplyMismatches(text, ms, 1, [correctedText |-> text, correctedWords |-> <<>>])

correctPronouns(text, ms) ==
    ApplyMismatches(text, SortDescending(ms), 1, [correctedText |-> text, correctedWords |-> <<>>])

(***************************************************************************)
(* The contextual scanner (parseContextualPronouns, shouldCorrect)         *)
(***************************************************************************)
s_xe_xem == <<"x", "e", "/", "x", "e", "m">>
s_ze_zir == <<"z", "e", "/", "z", "i", "r">>
s_fae_faer == <<"f", "a", "e", "/", "f", "a", "e", "r">>
s_ey_em == <<"e", "y", "/", "e", "m">>
s_xe == <<"x", "e">>
s_xem == <<"x", "e", "m">>
s_xyr == <<"x", "y", "r">>
s_xyrs == <<"x", "y", "r", "s">>
s_xemself == <<"x", "e", "m", "s", "e", "l", "f">>
s_ze == <<"z", "e">>
s_zir == <<"z", "i", "r">>
s_zirs == <<"z", "i", "r", "s">>
s_zirself == <<"z", "i", "r", "s", "e", "l", "f">>
s_fae == <<"f", "a", "e">>
s_faer == <<"f", "a", "e", "r">>
s_faers == <<"f", "a", "e", "r", "s">>
s_faerself == <<"f", "a", "e", "r", "s", "e", "l", "f">>
s_ey == <<"e", "y">>
s_em == <<"e", "m">>
s_eir == <<"e", "i", "r">>
s_eirs == <<"e", "i", "r", "s">>
s_emself == <<"e", "m", "s", "e", "l", "f">>
s_themselve == <<"t", "h", "e", "m", "s", "e", "l", "v", "e">>
s_when_ == <<"w", "h", "e", "n", " ">>
s_http == <<"h", "t", "t", "p">>

\* the keys of the flat PRONOUN_SETS of the scanner, in insertion order
FLAT_SET_KEYS == <<s_he_him, s_she_her, s_they_them, s_it_its, s_xe_xem, s_ze_zir, s_fae_faer, s_ey_em>>

FLAT_PRONOUN_SETS ==
    [k \in Range(FLAT_SET_KEYS) |->
        CASE k = s_he_him -> <<s_he, s_him, s_his, s_himself>>
          [] k = s_she_her -> <<s_she, s_her, s_hers, s_herself>>
          [] k = s_they_them -> <<s_they, s_them, s_their, s_theirs, s_themselves, s_themself>>
          [] k = s_it_its -> <<s_it, s_its, s_itself>>
          [] k = s_xe_xem -> <<s_xe, s_xem, s_xyr, s_xyrs, s_xemself>>
          [] k = s_ze_zir -> <<s_ze, s_zir, s_zirs, s_zirself>>
          [] k = s_fae_faer -> <<s_fae, s_faer, s_faers, s_faerself>>
          [] k = s_ey_em -> <<s_ey, s_em, s_eir, s_eirs, s_emself>>]

\* the words each pattern of PRONOUN_PATTERNS matches between its two \b
PRONOUN_PATTERNS ==
    << {s_he, s_she, s_they, s_xe, s_ze, s_fae, s_ey, s_it},
       {s_him, s_her, s_them, s_xem, s_zir, s_faer, s_em, s_it},
       {s_his, s_her, s_hers, s_their, s_theirs, s_xyr, s_xyrs, s_zir, s_zirs,
        s_faer, s_faers, s_eir, s_eirs, s_its},
       {s_himself, s_herself, s_themselve, s_themselves, s_xemself, s_zirself,
        s_faerself, s_emself, s_itself} >>

SubjectStarters == {s_he, s_she, s_they, s_xe, s_ze, s_fae, s_ey}

\* POSITIVE_CONTEXT_PATTERNS followed by NEGATIVE_CONTEXT_PATTERNS: seven module-level
\* regular expressions with the g flag, each keeping its own lastIndex between calls
CONTEXT_PATTERNS ==
    << [kind |-> "words", words |-> {<<"p", "e", "r", "s", "o", "n">>, <<"i", "n", "d", "i", "v", "i", "d", "u", "a", "l">>, <<"u", "s", "e", "r">>, <<"m", "e", "m", "b", "e", "r">>, <<"f", "r", "i", "e", "n", "d">>, <<"c", "o", "l", "l", "e", "a", "g", "u", "e">>}],
       [kind |-> "words", words |-> {<<"s", "a", "i", "d">>, <<"t", "o", "l", "d">>, <<"m", "e", "n", "t", "i", "o", "n", "e", "d">>, <<"t", "h", "i", "n", "k", "s">>, <<"b", "e", "l", "i", "e", "v", "e", "s">>, <<"l", "i", "k", "e", "s">>, <<"w", "a", "n", "t", "s">>}],
       [kind |-> "when", words |-> SubjectStarters],
       [kind |-> "words", words |-> {<<"m", "o", "v", "i", "e">>, <<"s", "o", "n", "g">>, <<"b", "o", "o", "k">>, <<"g", "a", "m", "e">>, <<"s", "h", "o", "w">>, <<"v", "i", "d", "e", "o">>, <<"m", "e", "m", "e">>}],
       [kind |-> "words", words |-> {<<"q", "u", "o", "t", "e">>, <<"l", "y", "r", "i", "c", "s">>, <<"r", "e", "f", "e", "r", "e", "n", "c", "e">>, <<"f", "r", "o", "m">>}],
       [kind |-> "url", words |-> {}],
       [kind |-> "words", words |-> {<<"c", "h", "a", "r", "a", "c", "t", "e", "r">>, <<"f", "i", "c", "t", "i", "o", "n", "a", "l">>, <<"s", "t", "o", "r", "y">>}] >>
NUM_POSITIVE == 3
NUM_CONTEXT_PATTERNS == 7

\* the end (exclusive) of the match of context pattern pat that starts at 0-based
\* position i of s, or -1 when it does not match there
MatchEndAt(pat, s, i) ==
    CASE pat.kind = "words" ->
           IF \E w \in pat.words : WordAt(s, i, w)
           THEN i + Len(MatchedWord(s, i, pat.words)) ELSE -1
      [] pat.kind = "when" ->
           IF /\ WordBoundary(s, i)
              /\ HasAtIgnoreCase(s, i, s_when_)
              /\ \E w \in pat.words : /\ HasAtIgnoreCase(s, i + 5, w)
                                      /\ WordBoundary(s, i + 5 + Len(w))
           THEN i + 5 + Len(CHOOSE w \in pat.words : /\ HasAtIgnoreCase(s, i + 5, w)
                                                     /\ WordBoundary(s, i + 5 + Len(w)))
           ELSE -1
      [] pat.kind = "url" ->
           IF WordBoundary(s, i) /\ HasAtIgnoreCase(s, i, s_http)
           THEN IF HasAt(s, i + 4, <<":", "/", "/">>) THEN i + 7
                ELSE IF HasAtIgnoreCase(s, i + 4, <<"s", ":", "/", "/">>) THEN i + 8
                ELSE -1
           ELSE -1

\* RegExp.prototype.test of a g-flagged pattern, given the positions from lastIndex on
\* where it matches: a match leaves lastIndex at the end of the first one, a failure
\* resets lastIndex to 0
TestResult(pat, s, starts) ==
    IF starts = {} THEN [found |-> FALSE, lastIndex |-> 0]
    ELSE [found |-> TRUE,
          lastIndex |-> MatchEndAt(pat, s, CHOOSE i \in starts : \A j \in starts : i <= j)]

RegexTest(pat, s, lastIdx) ==
    TestResult(pat, s, {i \in lastIdx..(Len(s) - 1) : MatchEndAt(pat, s, i) >= 0})

\* the number of whitespace characters s has from 0-based position i on
RECURSIVE SpaceRun(_, _)
SpaceRun(s, i) == IF i < Len(s) /\ IsSpaceChar(s[i + 1]) THEN 1 + SpaceRun(s, i + 1) ELSE 0

\* /^\s*\b(he|she|they|xe|ze|fae|ey)\b/i.test(context)
StartsWithSubject(context) ==
    \E w \in SubjectStarters : WordAt(context, SpaceRun(context, 0), w)

\* new RegExp("\\b" + pronoun + "\\s+(is|was|...|said)\\b", "i").test(context)
FollowedByVerb(context, pronoun) ==
    \E i \in 0..(Len(context) - 1) :
        /\ WordBoundary(context, i)
        /\ HasAtIgnoreCase(context, i, pronoun)
        /\ SpaceRun(context, i + Len(pronoun)) >= 1
        /\ \E v \in VerbList :
              LET j == i + Len(pronoun) + SpaceRun(context, i + Len(pronoun))
              IN HasAtIgnoreCase(context, j, v) /\ WordBoundary(context, j + Len(v))

\* confidence += 15 for a positive pattern that matches, confidence -= 25 for a
\* negative one
ContextDelta(k, found) ==
    IF ~found THEN 0 ELSE IF k <= NUM_POSITIVE THEN 15 ELSE 0 - 25

\* the two for loops over the context patterns: pattern k onwards, with the
\* confidence so far and the lastIndex of every pattern; r is what pattern k's test
\* returned
RECURSIVE ContextLoop(_, _, _, _)
RECURSIVE ContextStep(_, _, _, _, _)
ContextStep(context, k, confidence, lastIdx, r) ==
    ContextLoop(context, k + 1, confidence + ContextDelta(k, r.found),
                [lastIdx EXCEPT ![k] = r.lastIndex])

ContextLoop(context, k, confidence, lastIdx) ==
    IF k > NUM_CONTEXT_PATTERNS THEN [confidence |-> confidence, lastIndex |-> lastIdx]
    ELSE ContextStep(context, k, confidence, lastIdx,
                     RegexTest(CONTEXT_PATTERNS[k], context, lastIdx[k]))

BASE_CONFIDENCE == 50

\* the two single tests and the clamp, after the loops
ContextScore(looped, atStart, beforeVerb) ==
    [confidence |-> Max(0, Min(100, looped.confidence + (IF atStart THEN 10 ELSE 0)
                                                       + (IF beforeVerb THEN 20 ELSE 0))),
     lastIndex |-> looped.lastIndex]

calculateContextConfidence(context, pronoun, lastIdx) ==
    ContextScore(ContextLoop(context, 1, BASE_CONFIDENCE, lastIdx),
                 StartsWithSubject(context), FollowedByVerb(context, pronoun))

PARSE_CONTEXT == 50

\* every match of the four PRONOUN_PATTERNS, pattern by pattern, each as <<position, length>>
AllPronounMatches(processedText) ==
    ConcatAll([p \in 1..Len(PRONOUN_PATTERNS) |->
        LET pos == WordMatchPositions(processedText, PRONOUN_PATTERNS[p])
        IN [k \in 1..Len(pos) |->
              <<pos[k], Len(MatchedWord(processedText, pos[k], PRONOUN_PATTERNS[p]))>>]])

\* result.foundPronouns.push({pronoun, position, context, confidence})
PushFound(acc, pronoun, position, context, scored) ==
    [foundPronouns |-> Append(acc.foundPronouns,
          [pronoun |-> pronoun, position |-> position, context |-> context,
           confidence |-> scored.confidence]),
     lastIndex |-> scored.lastIndex]

\* the confidence of one found pronoun
ScoreFound(context, pronoun, options, lastIdx) ==
    IF options.contextAwareness
    THEN calculateContextConfidence(context, pronoun, lastIdx)
    ELSE [confidence |-> BASE_CONFIDENCE, lastIndex |-> lastIdx]

\* the body of the while loop for one match
ScanOne(processedText, position, len, pronoun, context, options, acc) ==
    PushFound(acc, pronoun, position, context,
              ScoreFound(context, pronoun, options, acc.lastIndex))

\* the while loop for matches k.. : pushes onto foundPronouns
RECURSIVE ScanLoop(_, _, _, _, _)
ScanLoop(processedText, matches, k, options, acc) ==
    IF k > Len(matches) THEN acc
    ELSE ScanLoop(processedText, matches, k + 1, options,
            ScanOne(processedText, matches[k][1], matches[k][2],
                    toLowerCase(Slice(processedText, matches[k][1],
                                      matches[k][1] + matches[k][2])),
                    Slice(processedText, Max(0, matches[k][1] - PARSE_CONTEXT),
                          Min(Len(processedText),
                              matches[k][1] + matches[k][2] + PARSE_CONTEXT)),
                    options, acc))

\* the number of digits s has from 0-based position i on
RECURSIVE DigitRun(_, _)
DigitRun(s, i) == IF i < Len(s) /\ s[i + 1] \in Range(Digits) THEN 1 + DigitRun(s, i + 1) ELSE 0

\* /<@!?(\d+)>/ matches at 0-based position i: the captured id, or <<>> when no match
MentionIdAt(s, i) ==
    IF ~HasAt(s, i, <<"<", "@">>) THEN <<>>
    ELSE LET start == IF HasAt(s, i + 2, <<"!">>) THEN i + 3 ELSE i + 2
             n == DigitRun(s, start)
         IN IF n >= 1 /\ HasAt(s, start + n, <<">">>) THEN Slice(s, start, start + n) ELSE <<>>

\* [...new Set(list)]: the first occurrence of each element, in order
RECURSIVE Dedupe(_)
Dedupe(list) ==
    IF list = <<>> THEN <<>>
    ELSE LET rest == Dedupe(SubSeq(list, 1, Len(list) - 1))
             last == list[Len(list)]
         IN IF last \in Range(rest) THEN rest ELSE Append(rest, last)

MentionIdsAt(text, pos) == [k \in 1..Len(pos) |-> MentionIdAt(text, pos[k])]

extractMentions(text) ==
    Dedupe(MentionIdsAt(text,
        SetToSortedSeq({i \in 0..(Len(text) - 1) : MentionIdAt(text, i) # <<>>})))

MENTION_SURROUND == 100
NEARBY == 200

\* result.mentionContext.push({userId, surroundingText, pronounsNearby}) for the
\* mention of uid at mentionPos, len characters long
MentionContext(processedText, uid, mentionPos, len, near) ==
    [userId |-> uid,
     surroundingText |-> Slice(processedText, Max(0, mentionPos - MENTION_SURROUND),
                               Min(Len(processedText), mentionPos + len + MENTION_SURROUND)),
     pronounsNearby |-> Dedupe([j \in 1..Len(near) |-> near[j].pronoun])]

\* the entries of one mentioned id: one per mention of it, at the positions pos
MentionContextsOf(processedText, foundPronouns, uid, pos) ==
    [k \in 1..Len(pos) |->
        MentionContext(processedText, uid, pos[k],
                       MentionLenAt(processedText, pos[k], uid),
                       SelectSeq(foundPronouns,
                                 LAMBDA p : Abs(p.position - pos[k]) < NEARBY))]

\* the mentionContext entries: for every mentioned id, one entry per mention of it
MentionContextsFor(processedText, foundPronouns, mentions) ==
    ConcatAll([u \in 1..Len(mentions) |->
        MentionContextsOf(processedText, foundPronouns, mentions[u],
                          MentionPositions(processedText, mentions[u]))])

MentionContexts(processedText, foundPronouns) ==
    MentionContextsFor(processedText, foundPronouns, extractMentions(processedText))

\* the result once the pronoun scan is done
AnalysisOf(processedText, scanned) ==
    [analysis |-> [foundPronouns |-> scanned.foundPronouns,
                   mentionContext |-> MentionContexts(processedText, scanned.foundPronouns)],
     lastIndex |-> scanned.lastIndex]

ParseProcessed(processedText, options, lastIdx) ==
    AnalysisOf(processedText,
               ScanLoop(processedText, AllPronounMatches(processedText), 1, options,
                        [foundPronouns |-> <<>>, lastIndex |-> lastIdx]))

\* returns the analysis and the lastIndex the context patterns are left with
parseContextualPronouns(text, options, lastIdx) ==
    ParseProcessed(IF options.skipQuotes THEN StripIgnorable(text) ELSE text,
                   options, lastIdx)

\* String.prototype.trim
RECURSIVE Trim(_)
Trim(s) ==
    IF s = <<>> THEN s
    ELSE IF IsSpaceChar(s[1]) THEN Trim(Tail(s))
    ELSE IF IsSpaceChar(s[Len(s)]) THEN Trim(SubSeq(s, 1, Len(s) - 1))
    ELSE s

IsSeparator(c) == c = "/" \/ c = "," \/ IsSpaceChar(c)

\* normalized.split(/[\/,\s]+/).filter(p => p.length > 0), with the word being read
RECURSIVE SplitParts(_, _, _)
SplitParts(s, i, current) ==
    IF i > Len(s) THEN (IF current = <<>> THEN <<>> ELSE <<current>>)
    ELSE IF IsSeparator(s[i])
         THEN (IF current = <<>> THEN <<>> ELSE <<current>>) \o SplitParts(s, i + 1, <<>>)
         ELSE SplitParts(s, i + 1, Append(current, s[i]))

NoSet == <<"null">>

getPronounSet(pronouns) ==
    LET normalized == Trim(toLowerCase(pronouns))
        parts == SplitParts(normalized, 1, <<>>)
        fits == {k \in 1..Len(FLAT_SET_KEYS) :
                    \A p \in Range(parts) : p \in Range(FLAT_PRONOUN_SETS[FLAT_SET_KEYS[k]])}
    IN IF normalized \in DOMAIN FLAT_PRONOUN_SETS THEN FLAT_PRONOUN_SETS[normalized]
       ELSE IF Len(parts) >= 2
            THEN IF fits # {}
                 THEN FLAT_PRONOUN_SETS[FLAT_SET_KEYS[CHOOSE k \in fits : \A j \in fits : k <= j]]
                 ELSE parts
            ELSE NoSet

RECURSIVE SumConfidence(_)
SumConfidence(ps) == IF ps = <<>> THEN 0 ELSE Head(ps).confidence + SumConfidence(Tail(ps))

MISMATCH_CONFIDENCE == 80
AVERAGE_BONUS == 20
IT_PENALTY == 15

\* a confidence is the fraction num / den (the average of the code is not an integer)
Verdict(should, num, den, incorrect, label, reasoning) ==
    [shouldCorrect |-> should, confidence |-> [num |-> num, den |-> den],
     incorrectPronouns |-> incorrect, correctPronouns |-> label, reasoning |-> reasoning]

IsUnspecifiedOrAny_OnlyUnspecified(label) == label = s_unspecified

\* userPronouns === "unspecified" || userPronouns === "any pronouns"
IsUnspecifiedOrAny(label) == label = s_unspecified \/ label = s_any_pronouns

shouldCorrect(analysis, label, uid, options) ==
    IF IsUnspecifiedOrAny(label)
    THEN Verdict(FALSE, 0, 1, <<>>, label, "User pronouns are unspecified or accepts any pronouns")
    ELSE LET acceptedPronouns == getPronounSet(label)
             ctxs == SelectSeq(analysis.mentionContext, LAMBDA c : c.userId = uid)
         IN IF acceptedPronouns = NoSet
            THEN Verdict(FALSE, 0, 1, <<>>, label, "Could not parse user pronouns")
            ELSE IF ctxs = <<>> \/ Len(ctxs[1].pronounsNearby) = 0
            THEN Verdict(FALSE, 0, 1, <<>>, label, "No pronouns found near user mention")
            ELSE LET incorrect == SelectSeq(ctxs[1].pronounsNearby,
                                     LAMBDA p : toLowerCase(p) \notin Range(acceptedPronouns))
                     relevant == SelectSeq(analysis.foundPronouns,
                                     LAMBDA p : p.pronoun \in Range(incorrect))
                     den == IF options.contextAwareness /\ Len(relevant) > 0 THEN Len(relevant) ELSE 1
                     capped == IF options.contextAwareness /\ Len(relevant) > 0
                               THEN Min(MISMATCH_CONFIDENCE * den,
                                        SumConfidence(relevant) + AVERAGE_BONUS * den)
                               ELSE MISMATCH_CONFIDENCE
                     num == IF options.contextAwareness
                               /\ \E p \in Range(incorrect) : toLowerCase(p) \in {s_it, s_its}
                            THEN capped - IT_PENALTY * den ELSE capped
                 IN IF Len(incorrect) = 0
                    THEN Verdict(FALSE, 100, 1, <<>>, label, "All pronouns used are correct")
                    ELSE Verdict(num >= options.requireConfidence * den, num, den, incorrect,
                                 label, "Found incorrect pronouns")

(***************************************************************************)
(* The text machine: one message is detected and rewritten, or scanned and *)
(* judged.                                                                 *)
(***************************************************************************)
VARIABLES
    content,        \* the message text
    userId,         \* the user the message is checked for
    userPronouns,   \* that user's label
    options,        \* the detection / parse options of the caller
    tpc,            \* "input", "detected", "corrected", "parsed" or "judged"
    mismatches,     \* correction.mismatches, the array detectPronounMismatches returned
    rewrite,        \* the CorrectionResult of correctPronouns
    analysis,       \* the PronounAnalysis of parseContextualPronouns
    verdict,        \* the CorrectionResult of shouldCorrect
    lastIndex,      \* the lastIndex of each of the seven context patterns
    now,            \* Date.now(), in milliseconds
    myPronounCache, \* the Map userId -> [pronouns, timestamp]
    calls,          \* the calls of fetchPronouns: where each one stands and what it did
    fetchOptions,   \* the FetchOptions the caller passes
    corrections,    \* DuplicateTracker: the Map key -> CorrectionRecord[]
    settings,       \* DuplicateTracker: the DuplicateSettings
    cleanupDue,     \* DuplicateTracker: when the cleanup interval fires next
    dupOp,          \* DuplicateTracker: the last operation and its result
    pluginOptions,  \* the plugin's settings
    stats,          \* the plugin's statistics
    intercepted,    \* how many messages the pre-send listener has seen
    fired,          \* the corrections that fired: channel, users, time, blocked or not
    delivery,       \* what became of the last message: its content, sent or cancelled
    inflight        \* the runs of interceptMyMessage that are suspended on an await

textVars == <<content, userId, userPronouns, options, tpc, mismatches, rewrite, analysis,
              verdict, lastIndex>>
fetchVars == <<myPronounCache, calls, fetchOptions>>
dupVars == <<corrections, settings, cleanupDue, dupOp>>
pluginVars == <<pluginOptions, stats, intercepted, fired, delivery, inflight>>
vars == <<textVars, now, fetchVars, dupVars, pluginVars>>

MaxWords == 3

Space == <<" ">>
Vocabulary == {<<"H", "e">>, <<"h", "i", "s">>, <<"I", "T">>, <<"t", "h", "e", "m">>, <<"i", "s">>, <<"<", "@", "1", ">">>}

\* words joined by single spaces
RECURSIVE JoinWords(_)
JoinWords(ws) ==
    IF Len(ws) = 0 THEN <<>>
    ELSE IF Len(ws) = 1 THEN ws[1]
    ELSE ws[1] \o Space \o JoinWords(Tail(ws))

GeneratedTexts == {JoinWords(ws) : ws \in UNION {[1..n -> Vocabulary] : n \in 1..MaxWords}}

ScenarioA == <<"H", "e", " ", "i", "s", " ", "r", "e", "a", "l", "l", "y", " ", "g", "o", "o", "d", " ", "a", "t", " ", "c", "o", "d", "i", "n", "g", " ", "<", "@", "1", ">">>
ScenarioB == <<"H", "i", "m", " ", "a", "n", "d", " ", "h", "i", "s", " ", "t", "e", "a", "m", " ", "d", "i", "d", " ", "g", "r", "e", "a", "t", " ", "w", "o", "r", "k", " ", "<", "@", "1", ">">>

Texts == GeneratedTexts \cup {ScenarioA, ScenarioB}
UserIds == {<<"1">>}
Labels == {s_she_her, s_they_them, s_unspecified, s_any_pronouns, s_other_pronouns}
Thresholds == {0, 80}
RequiredConfidences == {75}

ZeroLastIndex == [k \in 1..NUM_CONTEXT_PATTERNS |-> 0]
NoRewrite == [correctedText |-> <<>>, correctedWords |-> <<>>]
NoAnalysis == [foundPronouns |-> <<>>, mentionContext |-> <<>>]
NoVerdict == Verdict(FALSE, 0, 1, <<>>, <<>>, "")

TextInit ==
    /\ content \in Texts
    /\ userId \in UserIds
    /\ userPronouns \in Labels
    /\ options \in [skipQuotedText : BOOLEAN, confidenceThreshold : Thresholds,
                    contextAwareness : BOOLEAN, requireConfidence : RequiredConfidences]
    /\ tpc = "input"
    /\ mismatches = <<>>
    /\ rewrite = NoRewrite
    /\ analysis = NoAnalysis
    /\ verdict = NoVerdict
    /\ lastIndex = ZeroLastIndex

Detect ==
    /\ tpc = "input"
    /\ mismatches' = detectPronounMismatches(content, userId, userPronouns, options)
    /\ tpc' = "detected"
    /\ UNCHANGED <<content, userId, userPronouns, options, rewrite, analysis, verdict, lastIndex>>
    /\ UNCHANGED <<now, fetchVars, dupVars, pluginVars>>

\* correctPronouns sorts correction.mismatches in place before it applies them
Correct ==
    /\ tpc = "detected"
    /\ rewrite' = correctPronouns(content, mismatches)
    /\ mismatches' = SortDescending(mismatches)
    /\ tpc' = "corrected"
    /\ UNCHANGED <<content, userId, userPronouns, options, analysis, verdict, lastIndex>>
    /\ UNCHANGED <<now, fetchVars, dupVars, pluginVars>>

Parse ==
    /\ tpc = "input"
    /\ LET r == parseContextualPronouns(content,
                    [skipQuotes |-> options.skipQuotedText,
                     contextAwareness |-> options.contextAwareness], lastIndex)
       IN /\ analysis' = r.analysis
          /\ lastIndex' = r.lastIndex
    /\ tpc' = "parsed"
    /\ UNCHANGED <<content, userId, userPronouns, options, mismatches, rewrite, verdict>>
    /\ UNCHANGED <<now, fetchVars, dupVars, pluginVars>>

Judge ==
    /\ tpc = "parsed"
    /\ verdict' = shouldCorrect(analysis, userPronouns, userId, options)
    /\ tpc' = "judged"
    /\ UNCHANGED <<content, userId, userPronouns, options, mismatches, rewrite, analysis, lastIndex>>
    /\ UNCHANGED <<now, fetchVars, dupVars, pluginVars>>

TextNext == Detect \/ Correct \/ Parse \/ Judge

(***************************************************************************)
(* Claims about the text machine                                           *)
(***************************************************************************)
\* the pronoun forms that are wrong for correctSet: those of the other sets, role by role
WrongForms(correctSet) ==
    UNION {Range(allPronounsOfType(Roles[t], correctSet[Roles[t]])) : t \in 1..Len(Roles)}

\* position i of text lies in the detection window of some mention of uid
InDetectionWindow(text, i, len, uid) ==
    \E k \in 1..Len(MentionPositions(text, uid)) :
        LET m == MentionPositions(text, uid)[k]
        IN i >= m - WINDOW_BEFORE /\ i + len <= m + WINDOW_AFTER

\* the text with every mismatched token inside a detection window replaced once by the
\* case-preserved first form of its role, and every other character kept
RECURSIVE ExpectedRewriteFrom(_, _, _, _)
ExpectedRewriteFrom(text, i, uid, correctSet) ==
    IF i >= Len(text) THEN <<>>
    ELSE IF \E w \in WrongForms(correctSet) :
                WordAt(text, i, w) /\ InDetectionWindow(text, i, Len(w), uid)
         THEN LET w == MatchedWord(text, i, WrongForms(correctSet))
              IN preserveCase(Slice(text, i, i + Len(w)), findBestCorrection(w, correctSet))
                 \o ExpectedRewriteFrom(text, i + Len(w), uid, correctSet)
         ELSE <<text[i + 1]>> \o ExpectedRewriteFrom(text, i + 1, uid, correctSet)

\* the messages C1 speaks of: the label is known, the user is mentioned, and region
\* stripping leaves the message as it is
C1_Applies ==
    /\ toLowerCase(userPronouns) \in DOMAIN PRONOUN_SETS
    /\ MentionPositions(content, userId) # <<>>
    /\ (options.skipQuotedText => StripIgnorable(content) = content)

\* C1: detectPronounMismatches followed by correctPronouns yields the original text with
\* each mismatched token near a mention replaced exactly once by the first-listed
\* expected form of its role, case-preserved, and every other character unchanged
C1_EndToEndCorrection ==
    (tpc = "corrected" /\ C1_Applies) =>
        rewrite.correctedText =
            ExpectedRewriteFrom(content, 0, userId, PRONOUN_SETS[toLowerCase(userPronouns)])

\* C2: with label "unspecified" or "any pronouns" no decision is produced: the detector
\* returns an empty list and shouldCorrect answers false with no incorrect pronouns
C2_NoDecisionWithoutSpecificPronouns ==
    (userPronouns = s_unspecified \/ userPronouns = s_any_pronouns) =>
        /\ (tpc \in {"detected", "corrected"} => mismatches = <<>>)
        /\ (tpc = "judged" => /\ verdict.shouldCorrect = FALSE
                              /\ verdict.incorrectPronouns = <<>>)

\* a message with a pronoun next to the user's mention was judged for "any pronouns"
C2_Witness ==
    /\ tpc = "judged"
    /\ userPronouns = s_any_pronouns
    /\ \E k \in 1..Len(analysis.mentionContext) :
          /\ analysis.mentionContext[k].userId = userId
          /\ analysis.mentionContext[k].pronounsNearby # <<>>


\* C11: every confidence the engine reports lies in [0, 100]: that of each mismatch of
\* detectPronounMismatches, of each occurrence of parseContextualPronouns and of the
\* result of shouldCorrect
C11_ConfidenceWithinBounds ==
    /\ \A k \in 1..Len(mismatches) :
          mismatches[k].confidence >= 0 /\ mismatches[k].confidence <= 100
    /\ \A k \in 1..Len(analysis.foundPronouns) :
          /\ analysis.foundPronouns[k].confidence >= 0
          /\ analysis.foundPronouns[k].confidence <= 100
    /\ verdict.confidence.num >= 0
    /\ verdict.confidence.num <= 100 * verdict.confidence.den

\* parseContextualPronouns called again and again in one session: the module-level
\* patterns keep their lastIndex from one call to the next
ScanTexts ==
    {<<"h", "e", " ", "s", "a", "i", "d">>,
     <<"s", "a", "i", "d", " ", "h", "e", " ", "<", "@", "1", ">">>,
     <<"m", "y", " ", "f", "r", "i", "e", "n", "d", " ", "h", "e">>,
     <<"h", "e", " ", "i", "s", " ", "f", "r", "o", "m", " ", "a", " ", "b", "o", "o", "k">>,
     <<"w", "h", "e", "n", " ", "h", "e", " ", "t", "o", "l", "d", " ", "<", "@", "1", ">">>,
     <<"h", "i">>,
     <<"h", "e", " ", "s", "a", "i", "d", " ", "s", "h", "e", " ", "s", "a", "i", "d">>,
     <<"a", " ", "u", "s", "e", "r", " ", "t", "o", "l", "d", " ", "h", "i", "m">>}

Scan(text, skipQuotes, contextAwareness) ==
    /\ content' = text
    /\ options' = [options EXCEPT !.skipQuotedText = skipQuotes,
                                  !.contextAwareness = contextAwareness]
    /\ analysis' = parseContextualPronouns(text,
                      [skipQuotes |-> skipQuotes, contextAwareness |-> contextAwareness],
                      lastIndex).analysis
    /\ lastIndex' = parseContextualPronouns(text,
                      [skipQuotes |-> skipQuotes, contextAwareness |-> contextAwareness],
                      lastIndex).lastIndex
    /\ tpc' = "parsed"
    /\ UNCHANGED <<userId, userPronouns, mismatches, rewrite, verdict>>
    /\ UNCHANGED <<now, fetchVars, dupVars, pluginVars>>

ScanNext == \E text \in ScanTexts, skipQuotes \in BOOLEAN, contextAwareness \in BOOLEAN :
                Scan(text, skipQuotes, contextAwareness)

\* C12: for the same text and options a scan returns the same occurrence list whatever
\* was scanned before: the list a scan returned is the one the first scan of a session
\* returns for that text and those options
C12_ScanIsDeterministic ==
    tpc = "parsed" =>
        analysis.foundPronouns =
            parseContextualPronouns(content,
                [skipQuotes |-> options.skipQuotedText,
                 contextAwareness |-> options.contextAwareness],
                ZeroLastIndex).analysis.foundPronouns

\* a span of letters is all-uppercase; its first character is uppercase
AllUppercase(span) == \A k \in 1..Len(span) : span[k] \in Range(UpperLetters)
FirstUppercase(span) == span[1] \in Range(UpperLetters)

\* the case policy of the specification, on a lowercase word
Rendered(span, word) ==
    IF AllUppercase(span) THEN [k \in 1..Len(word) |-> toUpperChar(word[k])]
    ELSE IF FirstUppercase(span)
         THEN [k \in 1..Len(word) |-> IF k = 1 THEN toUpperChar(word[k]) ELSE word[k]]
         ELSE word

\* C13: every applied edit replaces the span the message has at its position by the
\* expected word in the case of that span: all-uppercase, first letter uppercase, or
\* lowercase
C13_CasePreserved ==
    tpc = "corrected" =>
        \A k \in 1..Len(rewrite.correctedWords) :
            LET edit == rewrite.correctedWords[k]
            IN \E j \in 1..Len(mismatches) :
                  /\ mismatches[j].position = edit.position
                  /\ edit.original = Slice(content, edit.position,
                                           edit.position + Len(mismatches[j].wrongPronoun))
                  /\ toLowerCase(edit.original) = mismatches[j].wrongPronoun
                  /\ edit.corrected = Rendered(edit.original, mismatches[j].correctPronoun)

\* one message had an all-uppercase token and a capitalised token replaced
C13_Witness ==
    /\ tpc = "corrected"
    /\ \E k \in 1..Len(rewrite.correctedWords) :
          /\ AllUppercase(rewrite.correctedWords[k].original)
          /\ AllUppercase(rewrite.correctedWords[k].corrected)
    /\ \E k \in 1..Len(rewrite.correctedWords) :
          /\ ~AllUppercase(rewrite.correctedWords[k].original)
          /\ FirstUppercase(rewrite.correctedWords[k].original)
          /\ FirstUppercase(rewrite.correctedWords[k].corrected)
          /\ ~AllUppercase(rewrite.correctedWords[k].corrected)

\* messages built from plain words, mentions and ignorable regions. The token "him"
\* is written only inside regions: a fenced code block, an inline code span and a
\* block-quote line; every region is followed by a space or ends its line
REGION_TOKEN == s_him
PlainSegments == {<<"h", "e", " ">>, <<"i", "s", " ">>, <<"<", "@", "1", ">", "\n">>, <<"<", "@", "1", ">", " ">>}
RegionSegments == {<<BQ, BQ, BQ, "h", "i", "m", BQ, BQ, BQ, " ">>, <<BQ, "h", "i", "m", BQ, " ">>, <<">", " ", "h", "i", "m", "\n">>}
MaxSegments == 3

StripTexts ==
    {ConcatAll(segs) :
        segs \in UNION {[1..n -> PlainSegments \cup RegionSegments] : n \in 1..MaxSegments}}

StripInit ==
    /\ content \in StripTexts
    /\ userId \in UserIds
    /\ userPronouns \in {s_she_her, s_they_them}
    /\ options \in [skipQuotedText : BOOLEAN, confidenceThreshold : {0},
                    contextAwareness : BOOLEAN, requireConfidence : RequiredConfidences]
    /\ tpc = "input"
    /\ mismatches = <<>>
    /\ rewrite = NoRewrite
    /\ analysis = NoAnalysis
    /\ verdict = NoVerdict
    /\ lastIndex = ZeroLastIndex

\* the message holds the token that is written only inside regions
HasRegionToken(text) == \E i \in 0..(Len(text) - 1) : HasAt(text, i, REGION_TOKEN)

\* C14: with skipQuotedText / skipQuotes set, a pronoun token inside a fenced code
\* block, an inline code span or a block-quote line produces no mismatch, no occurrence,
\* no nearby pronoun and no incorrect pronoun
C14_RegionTokensInvisible ==
    options.skipQuotedText =>
        /\ \A k \in 1..Len(mismatches) : mismatches[k].wrongPronoun # REGION_TOKEN
        /\ \A k \in 1..Len(analysis.foundPronouns) :
              analysis.foundPronouns[k].pronoun # REGION_TOKEN
        /\ \A k \in 1..Len(analysis.mentionContext) :
              REGION_TOKEN \notin Range(analysis.mentionContext[k].pronounsNearby)
        /\ REGION_TOKEN \notin Range(verdict.incorrectPronouns)

\* a message with a region was examined with stripping on: the token outside the
\* region was reported, the one inside was not
C14_Witness ==
    /\ tpc = "detected"
    /\ options.skipQuotedText
    /\ HasRegionToken(content)
    /\ mismatches # <<>>
    /\ \A k \in 1..Len(mismatches) : mismatches[k].wrongPronoun # REGION_TOKEN

\* the message has no backquote and no line that starts with ">"
IsPlainText(text) ==
    \A i \in 1..Len(text) :
        /\ text[i] # BQ
        /\ text[i] = ">" => (i > 1 /\ text[i - 1] # "\n")

\* C15: region stripping leaves text outside regions alone: a message without any
\* region yields the same mismatches, occurrences and mention contexts with
\* stripping on as with stripping off
C15_PlainTextStillScanned ==
    (options.skipQuotedText /\ IsPlainText(content)) =>
        /\ tpc = "detected" =>
              mismatches = detectPronounMismatches(content, userId, userPronouns,
                               [skipQuotedText |-> FALSE,
                                confidenceThreshold |-> options.confidenceThreshold])
        /\ tpc = "parsed" =>
              analysis = parseContextualPronouns(content,
                             [skipQuotes |-> FALSE,
                              contextAwareness |-> options.contextAwareness],
                             ZeroLastIndex).analysis

\* a word of some set of the scanner's pronoun table
KnownPronounWords == UNION {Range(FLAT_PRONOUN_SETS[k]) : k \in DOMAIN FLAT_PRONOUN_SETS}

\* a specific label that is neither a key of the pronoun table nor a compound of two
\* or more parts that are all known pronoun words
IsUnparseableLabel(label) ==
    /\ label # s_unspecified /\ label # s_any_pronouns
    /\ Trim(toLowerCase(label)) \notin DOMAIN FLAT_PRONOUN_SETS
    /\ ~(/\ Len(SplitParts(Trim(toLowerCase(label)), 1, <<>>)) >= 2
         /\ Range(SplitParts(Trim(toLowerCase(label)), 1, <<>>)) \subseteq KnownPronounWords)

\* C16: for an unparseable label the resolver returns no decision with the reason
\* "could not parse", and the detector returns no mismatch
C16_UnparseableLabelGivesNoDecision ==
    IsUnparseableLabel(userPronouns) =>
        /\ tpc = "judged" =>
              /\ ~verdict.shouldCorrect
              /\ verdict.incorrectPronouns = <<>>
              /\ verdict.reasoning = "Could not parse user pronouns"
        /\ tpc \in {"detected", "corrected"} => mismatches = <<>>

\* the pronoun words that occur in the message as whole words, in lowercase
PronounTokens(text) ==
    {w \in KnownPronounWords : \E i \in 0..(Len(text) - 1) : WordAt(text, i, w)}

\* the user is mentioned in the message and every word of it is within reach of the
\* mention for the detector and for the scanner
MentionedNearby(text, uid) ==
    MentionPositions(text, uid) # <<>> /\ Len(text) <= WINDOW_BEFORE

MaxDecisions == 2

RewriteTexts == {<<"h", "e", " ", "t", "h", "e", "m">>,
                 <<"H", "E", "-", "t", "h", "e", "m", "!">>,
                 <<"h", "e", ",", " ", "h", "e">>,
                 <<BQ, "x", BQ, " ", "h", "e">>}

\* a decision replaces "he" by the longer "they" or "them" by the shorter "her"
DecisionsFor(text) ==
    {[wrongPronoun |-> k[1], correctPronoun |-> k[2], position |-> p,
      context |-> <<>>, confidence |-> MISMATCH_CONFIDENCE] :
        k \in {<<s_he, s_they>>, <<s_them, s_her>>}, p \in 0..Len(text)}

DecisionLists(text) == UNION {[1..n -> DecisionsFor(text)] : n \in 0..MaxDecisions}

RewriteInit ==
    /\ content \in RewriteTexts
    /\ mismatches \in DecisionLists(content)
    /\ userId = <<>> /\ userPronouns = <<>>
    /\ options = [skipQuotedText |-> FALSE, confidenceThreshold |-> 0,
                  contextAwareness |-> FALSE, requireConfidence |-> 0]
    /\ tpc = "detected"
    /\ rewrite = NoRewrite /\ analysis = NoAnalysis /\ verdict = NoVerdict
    /\ lastIndex = ZeroLastIndex

RewriteNext == Correct

\* the spans [position, position + wrongPronoun.length) of the decisions are pairwise
\* disjoint
SpansDisjoint(ms) ==
    \A j, k \in 1..Len(ms) :
        j # k => \/ ms[j].position + Len(ms[j].wrongPronoun) <= ms[k].position
                 \/ ms[k].position + Len(ms[k].wrongPronoun) <= ms[j].position

AllWholeWords(text, ms) ==
    \A k \in 1..Len(ms) : IsWholeWord(text, ms[k].position, Len(ms[k].wrongPronoun))

\* the original text read from 0-based index i on, every decided span replaced at once
RECURSIVE SubstituteAll(_, _, _)
SubstituteAll(text, ms, i) ==
    IF \E k \in 1..Len(ms) : ms[k].position = i
    THEN LET m == ms[CHOOSE k \in 1..Len(ms) : ms[k].position = i]
             span == Slice(text, i, i + Len(m.wrongPronoun))
         IN preserveCase(span, m.correctPronoun)
                \o (IF i + Len(m.wrongPronoun) >= Len(text) THEN <<>>
                    ELSE SubstituteAll(text, ms, i + Len(m.wrongPronoun)))
    ELSE IF i >= Len(text) THEN <<>>
         ELSE <<text[i + 1]>> \o SubstituteAll(text, ms, i + 1)

\* C21: for decisions with pairwise disjoint spans that each pass the whole-word check,
\* correctPronouns returns the original text with all spans substituted at once, and
\* reports one edit per decision
C21_PositionStability ==
    (tpc = "corrected" /\ SpansDisjoint(mismatches) /\ AllWholeWords(content, mismatches)) =>
        /\ rewrite.correctedText = SubstituteAll(content, mismatches, 0)
        /\ Len(rewrite.correctedWords) = Len(mismatches)

\* two disjoint whole-word decisions were applied, one longer and one shorter than its
\* token
C21_Witness ==
    /\ tpc = "corrected" /\ SpansDisjoint(mismatches) /\ AllWholeWords(content, mismatches)
    /\ Len(rewrite.correctedWords) = 2
    /\ \E j, k \in 1..2 :
          /\ Len(rewrite.correctedWords[j].corrected) > Len(rewrite.correctedWords[j].original)
          /\ Len(rewrite.correctedWords[k].corrected) < Len(rewrite.correctedWords[k].original)
          /\ Len(rewrite.correctedWords[k].original) > 0

\* the text has the decision's wrong token, in any case, at the decision's position
Aligned(text, m) ==
    toLowerCase(Slice(text, m.position, m.position + Len(m.wrongPronoun)))
        = toLowerCase(m.wrongPronoun)

\* C22: a decision whose position does not hold its wrong token in the original text is
\* dropped by correctPronouns: every reported edit belongs to a decision that is aligned
\* with the text, and the text changes only by aligned decisions
C22_MisalignedDecisionDropped ==
    tpc = "corrected" =>
        /\ \A k \in 1..Len(rewrite.correctedWords) :
              \E j \in 1..Len(mismatches) :
                  /\ mismatches[j].position = rewrite.correctedWords[k].position
                  /\ Aligned(content, mismatches[j])
        /\ (\A j \in 1..Len(mismatches) : ~Aligned(content, mismatches[j]))
              => rewrite.correctedText = content

\* C25: correctPronouns changes neither the content, nor the decision list passed in,
\* its order included, nor any shared state
C25_CorrectPronounsIsPure ==
    [][tpc' = "corrected" =>
          /\ mismatches' = mismatches
          /\ UNCHANGED <<content, userId, userPronouns, options, analysis, verdict,
                         lastIndex, now, fetchVars, dupVars, pluginVars>>
      ]_vars

\* messages examined under every floor: the slider's markers and both ends for the
\* detector, floors at and just above the resolver's confidences 55, 70 and 80
FloorTexts == {<<"<", "@", "1", ">", " ", "H", "e">>,
               <<"<", "@", "1", ">", " ", "i", "s", " ", "H", "e">>,
               <<"<", "@", "1", ">", " ", "t", "h", "e", "m", " ", "H", "e">>,
               <<"<", "@", "1", ">", " ", "I", "T">>,
               <<"H", "e", " ", "s", "a", "i", "d", " ", "<", "@", "1", ">">>,
               <<"<", "@", "1", ">", " ", "h", "e", "r">>,
               <<"H", "e", " ", "i", "s", " ", "<", "@", "1", ">", " ", "h", "e", "l", "l", "o", " ", "t", "h", "e", "r", "e", " ", "m", "y", " ", "f", "r", "i", "e", "n", "d", " ", "h", "i", "m">>,
               ScenarioA, ScenarioB}
FloorThresholds == {0, 60, 70, 80, 90, 95, 100}
FloorRequired == {0, 55, 56, 70, 71, 80, 81}

FloorInit ==
    /\ content \in FloorTexts
    /\ userId \in UserIds
    /\ userPronouns \in {s_she_her, s_they_them}
    /\ options \in [skipQuotedText : {FALSE}, confidenceThreshold : FloorThresholds,
                    contextAwareness : BOOLEAN, requireConfidence : FloorRequired]
    /\ tpc = "input"
    /\ mismatches = <<>>
    /\ rewrite = NoRewrite
    /\ analysis = NoAnalysis
    /\ verdict = NoVerdict
    /\ lastIndex = ZeroLastIndex

\* C23: every mismatch the detector returns has a confidence of at least the caller's
\* confidenceThreshold, and shouldCorrect answers true exactly when it found incorrect
\* pronouns and its confidence is at least requireConfidence
C23_ConfidenceFloor ==
    /\ tpc \in {"detected", "corrected"} =>
          \A k \in 1..Len(mismatches) :
              mismatches[k].confidence >= options.confidenceThreshold
    /\ tpc = "judged" =>
          (verdict.shouldCorrect <=>
              /\ verdict.incorrectPronouns # <<>>
              /\ verdict.confidence.num >= options.requireConfidence * verdict.confidence.den)

\* under the floor 100 one candidate of the message was returned although another
\* one existed that the floor 0 admits
C23_Witness ==
    /\ tpc = "detected" /\ options.confidenceThreshold = 100
    /\ mismatches # <<>>
    /\ Len(mismatches) < Len(detectPronounMismatches(content, userId, userPronouns,
                                [skipQuotedText |-> FALSE, confidenceThreshold |-> 0]))

\* n characters that are neither pronouns nor mentions
Filler(n) == [k \in 1..n |-> "."]

\* messages that mention user 1 twice: with the only pronoun out of reach of the first
\* mention and within reach of the second, with an accepted pronoun at the first and a
\* wrong one at the second, with both mentions close together, and one that repeats a
\* token in two cases
MentionTexts ==
    {<<"<", "@", "1", ">", " ">> \o Filler(NEARBY) \o <<" ", "h", "e", " ", "<", "@", "1", ">">>,
     <<"<", "@", "1", ">", " ", "s", "h", "e", " ">> \o Filler(NEARBY)
         \o <<" ", "h", "e", " ", "<", "@", "1", ">">>,
     <<"<", "@", "1", ">", " ", "h", "e", " ", "<", "@", "1", ">">>,
     <<"<", "@", "1", ">", " ", "H", "e", " ", "h", "e", " ", "<", "@", "1", ">">>}

MentionsInit ==
    /\ content \in MentionTexts
    /\ userId \in UserIds
    /\ userPronouns \in {s_she_her, s_they_them}
    /\ options \in [skipQuotedText : {FALSE}, confidenceThreshold : Thresholds,
                    contextAwareness : BOOLEAN, requireConfidence : FloorRequired]
    /\ tpc = "input"
    /\ mismatches = <<>>
    /\ rewrite = NoRewrite
    /\ analysis = NoAnalysis
    /\ verdict = NoVerdict
    /\ lastIndex = ZeroLastIndex

\* the occurrences of the scan that are not accepted for the label and lie within
\* reach of some mention of uid
WrongNearAnyMention(text, found, uid, label) ==
    {found[k].pronoun : k \in {j \in 1..Len(found) :
        /\ found[j].pronoun \notin Range(FLAT_PRONOUN_SETS[label])
        /\ \E i \in 1..Len(MentionPositions(text, uid)) :
              Abs(found[j].position - MentionPositions(text, uid)[i]) < NEARBY}}

\* C24: a wrong pronoun within reach of any mention of the user, not only the first, is
\* among the incorrect pronouns of shouldCorrect, and a nearby list holds each lowercase
\* token once
C24_EveryMentionCounts ==
    /\ tpc = "judged" =>
          WrongNearAnyMention(content, analysis.foundPronouns, userId, userPronouns)
              \subseteq Range(verdict.incorrectPronouns)
    /\ \A c \in 1..Len(analysis.mentionContext) :
          LET near == analysis.mentionContext[c].pronounsNearby
          IN /\ \A j, k \in 1..Len(near) : near[j] = near[k] => j = k
             /\ \A j \in 1..Len(near) : near[j] = toLowerCase(near[j])

(***************************************************************************)
(* pronounAutoCorrect.ts: the pronoun directory (fetchPronouns)            *)
(***************************************************************************)
PRONOUNDB == "pronoundb"
DISCORD_BIO == "discord_bio"
CUSTOM == "custom"

\* the mapping table of normalizePronounsForMe, as <<code, label>> pairs
NormalizeMapping ==
    {<<<<"h", "h">>, <<"h", "e", "/", "h", "i", "m">>>>,
     <<<<"h", "i">>, <<"h", "e", "/", "i", "t">>>>,
     <<<<"h", "s">>, <<"h", "e", "/", "s", "h", "e">>>>,
     <<<<"h", "t">>, <<"h", "e", "/", "t", "h", "e", "y">>>>,
     <<<<"i", "h">>, <<"i", "t", "/", "h", "e">>>>,
     <<<<"i", "i">>, <<"i", "t", "/", "i", "t", "s">>>>,
     <<<<"i", "s">>, <<"i", "t", "/", "s", "h", "e">>>>,
     <<<<"i", "t">>, <<"i", "t", "/", "t", "h", "e", "y">>>>,
     <<<<"s", "h", "h">>, <<"s", "h", "e", "/", "h", "e">>>>,
     <<<<"s", "h">>, <<"s", "h", "e", "/", "h", "e", "r">>>>,
     <<<<"s", "i">>, <<"s", "h", "e", "/", "i", "t">>>>,
     <<<<"s", "t">>, <<"s", "h", "e", "/", "t", "h", "e", "y">>>>,
     <<<<"t", "h">>, <<"t", "h", "e", "y", "/", "h", "e">>>>,
     <<<<"t", "i">>, <<"t", "h", "e", "y", "/", "i", "t">>>>,
     <<<<"t", "s">>, <<"t", "h", "e", "y", "/", "s", "h", "e">>>>,
     <<<<"t", "t">>, <<"t", "h", "e", "y", "/", "t", "h", "e", "m">>>>,
     <<<<"a", "n", "y">>, <<"a", "n", "y", " ", "p", "r", "o", "n", "o", "u", "n", "s">>>>,
     <<<<"o", "t", "h", "e", "r">>, <<"o", "t", "h", "e", "r", " ", "p", "r", "o", "n", "o", "u", "n", "s">>>>,
     <<<<"a", "s", "k">>, <<"a", "s", "k", " ", "f", "o", "r", " ", "p", "r", "o", "n", "o", "u", "n", "s">>>>,
     <<<<"a", "v", "o", "i", "d">>, <<"a", "v", "o", "i", "d", " ", "p", "r", "o", "n", "o", "u", "n", "s">>>>}

\* data.pronouns is absent (or empty) in the reply
NoPronouns == <<>>

\* normalizePronounsForMe(data.pronouns || "unspecified")
normalizePronounsForMe(raw) ==
    LET pronouns == IF raw = NoPronouns THEN s_unspecified ELSE raw
    IN IF pronouns = s_unspecified THEN s_unspecified
       ELSE IF \E p \in NormalizeMapping : p[1] = toLowerCase(pronouns)
            THEN (CHOOSE p \in NormalizeMapping : p[1] = toLowerCase(pronouns))[2]
            ELSE pronouns

CACHE_TTL == 5 * 60 * 1000
DEFAULT_TIMEOUT == 5000

\* the concurrent callers of fetchPronouns, each calling once, in this order
Callers == {1, 2}
MaxSmallTicks == 2
MaxBigTicks == 2

\* the clock advances by a millisecond, or by one millisecond less than the cache TTL
BigTick == CACHE_TTL - 1

FetchUsers == {<<"1">>, <<"2">>}
Sources == {PRONOUNDB, DISCORD_BIO, CUSTOM}
\* options.sources is absent
AbsentSources == <<"absent">>
\* the FetchOptions tried: the default source, no source, a source that throws
\* first, a CUSTOM source without and with its URL, the same source listed twice
FetchOptionSets ==
    {[sources |-> AbsentSources, hasCustomApiUrl |-> FALSE, timeout |-> 0],
     [sources |-> <<>>, hasCustomApiUrl |-> FALSE, timeout |-> 0],
     [sources |-> <<DISCORD_BIO, PRONOUNDB>>, hasCustomApiUrl |-> FALSE, timeout |-> 0],
     [sources |-> <<CUSTOM, PRONOUNDB>>, hasCustomApiUrl |-> FALSE, timeout |-> 1],
     [sources |-> <<PRONOUNDB, CUSTOM>>, hasCustomApiUrl |-> TRUE, timeout |-> 0],
     [sources |-> <<PRONOUNDB, PRONOUNDB>>, hasCustomApiUrl |-> FALSE, timeout |-> 1]}
RawReplies == {<<"s", "h">>, NoPronouns}

\* options.sources || [PronounSource.PRONOUNDB]
EffectiveSources(o) == IF o.sources = AbsentSources THEN <<PRONOUNDB>> ELSE o.sources
\* options.timeout || 5000 (0 stands for an absent or zero option)
EffectiveTimeout(o) == IF o.timeout = 0 THEN DEFAULT_TIMEOUT ELSE o.timeout

NoEntry == [pronouns |-> <<>>, timestamp |-> 0 - 1]
EmptyCache == [u \in {} |-> NoEntry]
\* Map.prototype.get, set
CacheGet(cache, u) == IF u \in DOMAIN cache THEN cache[u] ELSE NoEntry
CacheSet(cache, u, e) == [x \in DOMAIN cache \cup {u} |-> IF x = u THEN e ELSE cache[x]]

\* a freshness test that still serves an entry aged exactly CACHE_TTL
IsFresh_Inclusive(entry, t) == entry # NoEntry /\ t - entry.timestamp <= CACHE_TTL

\* cached && Date.now() - cached.timestamp < CACHE_TTL
IsFresh(entry, t) == entry # NoEntry /\ t - entry.timestamp < CACHE_TTL

\* what fetchFromSource does for a source: a network fetch, a rejected promise
\* (fetchFromDiscordBio), or the "unspecified" of a CUSTOM source without customApiUrl
SourceKind(source, o) ==
    CASE source = PRONOUNDB -> "network"
      [] source = DISCORD_BIO -> "throws"
      [] source = CUSTOM -> IF o.hasCustomApiUrl THEN "network" ELSE "unspecified"

\* a call: where it stands (state, idx, deadline), what it was called for (userId) and
\* returned (result), and what it did: the cache entry it found and that entry's age at
\* the call (-1 without entry), whether it answered from the cache, the sources it
\* tried, and while it is suspended on a source: whether the cache was cleared since
\* it began
IdleCall ==
    [state |-> "idle", userId |-> <<>>, idx |-> 0, deadline |-> 0, attempts |-> <<>>,
     hit |-> FALSE, seen |-> <<>>, seenAge |-> 0 - 1, result |-> <<>>, cleared |-> FALSE]

Returned(call, label) ==
    [call EXCEPT !.state = "returned", !.result = label, !.idx = 0, !.deadline = 0,
                 !.cleared = FALSE]

\* the for loop reaches source k: fetchFromSource arms its timer and awaits, or the
\* loop is over and the call returns "unspecified"
StartAttempt(call, k, t, o) ==
    IF k > Len(EffectiveSources(o))
    THEN Returned(call, s_unspecified)
    ELSE [call EXCEPT !.state = "pending", !.idx = k,
                      !.deadline = t + EffectiveTimeout(o),
                      !.attempts = Append(@, [source |-> EffectiveSources(o)[k],
                                              outcome |-> "pending"])]

SetOutcome(call, outcome) ==
    [call EXCEPT !.attempts = [@ EXCEPT ![Len(@)] = [@ EXCEPT !.outcome = outcome]]]

\* a loop that gives up at the first source without a usable label
AfterNoResult_GivesUp(call, outcome, t, o) ==
    Returned(SetOutcome(call, outcome), s_unspecified)

\* the attempt ended without a usable label (it threw into the catch, or returned
\* "unspecified"): the loop goes on with the next source
AfterNoResult(call, outcome, t, o) ==
    StartAttempt(SetOutcome(call, outcome), call.idx + 1, t, o)

\* pronouns && pronouns !== "unspecified"
IsUsable(label) == label # <<>> /\ label # s_unspecified

\* a cache that also remembers a reply without a usable label
CacheAfterReply_AnyLabel(cache, u, label, t) ==
    CacheSet(cache, u, [pronouns |-> label, timestamp |-> t])

\* the cache after the attempt of a call for u returned label at time t
CacheAfterReply(cache, u, label, t) ==
    IF IsUsable(label) THEN CacheSet(cache, u, [pronouns |-> label, timestamp |-> t]) ELSE cache

CurrentKind(c) ==
    SourceKind(EffectiveSources(fetchOptions)[calls[c].idx], fetchOptions)

Pending(c) == calls[c].state = "pending"

\* an abort timer that never fires
TimerDue_Never(call, t) == FALSE

\* the abort timer of fetchFromSource has run out
TimerDue(call, t) == t >= call.deadline

\* the call has something to do before the clock moves on: a settled promise to
\* resume from, or a timer that ran out
Due(c) == Pending(c) /\ (CurrentKind(c) # "network" \/ TimerDue(calls[c], now))

\* the source attempts the pending calls may still have to wait for
Need ==
    LET left == {Len(EffectiveSources(fetchOptions)) - calls[c].idx + 1 :
                    c \in {d \in Callers : Pending(d)}}
    IN IF left = {} THEN 0 ELSE CHOOSE n \in left : \A m \in left : m <= n

FetchInit ==
    /\ now = 0
    /\ myPronounCache \in {EmptyCache,
                           CacheSet(EmptyCache, <<"1">>, [pronouns |-> s_she_her, timestamp |-> 0])}
    /\ calls = [c \in Callers |-> IdleCall]
    /\ fetchOptions \in FetchOptionSets

\* fetchPronouns(u, fetchOptions) is called: the cache check and, on a miss, the
\* first source
BeginFetch(c, u) ==
    /\ calls[c].state = "idle"
    /\ \A d \in Callers : d < c => calls[d].state # "idle"
    /\ (now \div BigTick) + Len(EffectiveSources(fetchOptions)) <= MaxBigTicks
    /\ LET cached == CacheGet(myPronounCache, u)
           begun == [IdleCall EXCEPT !.userId = u, !.seen = cached.pronouns,
                                     !.seenAge = IF cached = NoEntry THEN 0 - 1
                                                 ELSE now - cached.timestamp]
       IN calls' = [calls EXCEPT ![c] =
                       IF IsFresh(cached, now)
                       THEN [Returned(begun, cached.pronouns) EXCEPT !.hit = TRUE]
                       ELSE StartAttempt(begun, 1, now, fetchOptions)]
    /\ UNCHANGED <<now, myPronounCache, fetchOptions, textVars, dupVars, pluginVars>>

\* the source answered with a successful response whose body holds raw
SourceReply(c, raw) ==
    /\ Pending(c) /\ CurrentKind(c) = "network"
    /\ LET label == normalizePronounsForMe(raw)
       IN /\ myPronounCache' = CacheAfterReply(myPronounCache, calls[c].userId, label, now)
          /\ calls' = [calls EXCEPT ![c] =
                          IF IsUsable(label)
                          THEN Returned(SetOutcome(@, "label"), label)
                          ELSE AfterNoResult(@, "unspecified", now, fetchOptions)]
    /\ UNCHANGED <<now, fetchOptions, textVars, dupVars, pluginVars>>

\* a network error, a non-success response or a malformed payload: caught per source
SourceFailure(c) ==
    /\ Pending(c) /\ CurrentKind(c) = "network"
    /\ calls' = [calls EXCEPT ![c] = AfterNoResult(@, "error", now, fetchOptions)]
    /\ UNCHANGED <<now, myPronounCache, fetchOptions, textVars, dupVars, pluginVars>>

\* fetchFromDiscordBio rejects
SourceThrows(c) ==
    /\ Pending(c) /\ CurrentKind(c) = "throws"
    /\ calls' = [calls EXCEPT ![c] = AfterNoResult(@, "error", now, fetchOptions)]
    /\ UNCHANGED <<now, myPronounCache, fetchOptions, textVars, dupVars, pluginVars>>

\* a CUSTOM source without customApiUrl: fetchFromSource returns "unspecified"
SourceUnconfigured(c) ==
    /\ Pending(c) /\ CurrentKind(c) = "unspecified"
    /\ calls' = [calls EXCEPT ![c] = AfterNoResult(@, "unspecified", now, fetchOptions)]
    /\ UNCHANGED <<now, myPronounCache, fetchOptions, textVars, dupVars, pluginVars>>

\* the timer fires controller.abort(): the fetch rejects, the catch goes on
SourceTimeout(c) ==
    /\ Pending(c) /\ CurrentKind(c) = "network"
    /\ TimerDue(calls[c], now)
    /\ calls' = [calls EXCEPT ![c] = AfterNoResult(@, "timeout", now, fetchOptions)]
    /\ UNCHANGED <<now, myPronounCache, fetchOptions, textVars, dupVars, pluginVars>>

\* myPronounCache.clear(); the calls that are suspended on a source go on unaffected
clearMyPronounCache ==
    /\ myPronounCache # EmptyCache \/ \E c \in Callers : Pending(c) /\ ~calls[c].cleared
    /\ myPronounCache' = EmptyCache
    /\ calls' = [c \in Callers |->
                    IF Pending(c) THEN [calls[c] EXCEPT !.cleared = TRUE] ELSE calls[c]]
    /\ UNCHANGED <<now, fetchOptions, textVars, dupVars, pluginVars>>

TickSmall ==
    /\ \A c \in Callers : ~Due(c)
    /\ now % BigTick < MaxSmallTicks
    /\ now' = now + 1
    /\ UNCHANGED <<myPronounCache, calls, fetchOptions, textVars, dupVars, pluginVars>>

TickBig ==
    /\ \A c \in Callers : ~Due(c)
    /\ (now \div BigTick) + Max(Need, 1) <= MaxBigTicks
    /\ now' = now + BigTick
    /\ UNCHANGED <<myPronounCache, calls, fetchOptions, textVars, dupVars, pluginVars>>

FetchNext ==
    \/ \E c \in Callers, u \in FetchUsers : BeginFetch(c, u)
    \/ \E c \in Callers, raw \in RawReplies : SourceReply(c, raw)
    \/ \E c \in Callers : SourceFailure(c)
    \/ \E c \in Callers : SourceThrows(c)
    \/ \E c \in Callers : SourceUnconfigured(c)
    \/ \E c \in Callers : SourceTimeout(c)
    \/ clearMyPronounCache
    \/ TickSmall
    \/ TickBig

(***************************************************************************)
(* Claims about fetchPronouns                                              *)
(***************************************************************************)
NoLabelOutcomes == {"unspecified", "error", "timeout"}

\* C3: a call answers from the cache, attempting no source, exactly when an entry for
\* its user exists and is younger than the TTL of five minutes; in every other case
\* it goes to the configured sources
C3_CacheTtlBoundary ==
    \A c \in Callers :
        LET call == calls[c]
        IN call.state # "idle" =>
              /\ call.hit <=> (call.seenAge >= 0 /\ call.seenAge < 5 * 60 * 1000)
              /\ call.hit => /\ call.state = "returned"
                             /\ call.result = call.seen
                             /\ call.attempts = <<>>
              /\ ~call.hit => \/ call.attempts # <<>>
                              \/ EffectiveSources(fetchOptions) = <<>>

\* one call was served an entry aged TTL - 1 ms, another found the entry aged
\* TTL + 1 ms and went to a source
C3_Witness ==
    \E c, d \in Callers :
        /\ calls[c].hit /\ calls[c].seenAge = CACHE_TTL - 1
        /\ calls[d].state # "idle" /\ ~calls[d].hit
        /\ calls[d].seenAge = CACHE_TTL + 1 /\ calls[d].attempts # <<>>

\* the call of caller c returns in this step
Returns(c) == calls[c].state # "returned" /\ calls'[c].state = "returned"

\* C4: the cache entry of a user changes only when the cache is cleared or when a
\* call for that user returns the usable label of a source that answered, and then
\* the entry holds exactly that label; a call whose sources all failed, timed out or
\* answered "unspecified" returns "unspecified" and leaves the cache as it was
C4_CacheWrittenOnlyOnSuccess ==
    [][/\ \A u \in FetchUsers :
             CacheGet(myPronounCache', u) # CacheGet(myPronounCache, u) =>
                \/ myPronounCache' = EmptyCache
                \/ \E c \in Callers :
                      /\ Pending(c) /\ Returns(c) /\ calls[c].userId = u
                      /\ calls'[c].attempts[Len(calls'[c].attempts)].outcome = "label"
                      /\ calls'[c].result # s_unspecified
                      /\ myPronounCache' =
                            CacheSet(myPronounCache, u,
                                     [pronouns |-> calls'[c].result, timestamp |-> now])
       /\ \A c \in Callers :
             (Returns(c) /\ ~calls'[c].hit /\ calls'[c].result = s_unspecified) =>
                /\ myPronounCache' = myPronounCache
                /\ \A k \in 1..Len(calls'[c].attempts) :
                      calls'[c].attempts[k].outcome \in NoLabelOutcomes
                /\ Len(calls'[c].attempts) = Len(EffectiveSources(fetchOptions))
      ]_vars

\* one call returned "unspecified" after a timeout and its user has no entry, another
\* returned the label of a source and its user's entry holds that label
C4_Witness ==
    \E c, d \in Callers :
        /\ calls[c].state = "returned" /\ calls[c].result = s_unspecified
        /\ \E k \in 1..Len(calls[c].attempts) : calls[c].attempts[k].outcome = "timeout"
        /\ calls[c].userId \notin DOMAIN myPronounCache
        /\ calls[d].state = "returned" /\ ~calls[d].hit /\ calls[d].result # s_unspecified
        /\ calls[d].userId \in DOMAIN myPronounCache
        /\ myPronounCache[calls[d].userId].pronouns = calls[d].result

\* C5: on a miss the sources are attempted one at a time in the configured order, each
\* entry of the list once; the call returns the first usable label and attempts
\* nothing after it; an attempt that threw, timed out or answered "unspecified" is
\* followed by the next source, and the call returns "unspecified" only after the last
C5_SourcesInOrderUntilFirstLabel ==
    \A c \in Callers :
        LET call == calls[c]
            sources == EffectiveSources(fetchOptions)
            n == Len(call.attempts)
        IN (call.state # "idle" /\ ~call.hit) =>
              /\ call.state \in {"pending", "returned"}
              /\ n <= Len(sources)
              /\ \A k \in 1..n : call.attempts[k].source = sources[k]
              /\ \A k \in 1..(n - 1) : call.attempts[k].outcome \in NoLabelOutcomes
              /\ call.state = "pending" =>
                    /\ n >= 1 /\ call.idx = n
                    /\ call.attempts[n].outcome = "pending"
              /\ call.state = "returned" =>
                    IF call.result = s_unspecified
                    THEN /\ n = Len(sources)
                         /\ \A k \in 1..n : call.attempts[k].outcome \in NoLabelOutcomes
                    ELSE /\ n >= 1
                         /\ call.attempts[n].outcome = "label"

\* a call went past a source that threw or timed out and returned the label of the
\* second source; another went past the same and returned "unspecified"
C5_Witness ==
    \E c, d \in Callers :
        /\ calls[c].state = "returned" /\ Len(calls[c].attempts) = 2
        /\ calls[c].attempts[1].outcome \in {"error", "timeout"}
        /\ calls[c].attempts[2].outcome = "label"
        /\ calls[d].state = "returned" /\ Len(calls[d].attempts) = 2
        /\ calls[d].result = s_unspecified

\* C6: every call of fetchPronouns that waits for a source returns
C6_EveryCallReturns ==
    \A c \in Callers : Pending(c) ~> (calls[c].state = "returned")

\* a call returned although a source never answered: the abort ended the attempt
C6_Witness ==
    \E c \in Callers :
        /\ calls[c].state = "returned"
        /\ \A k \in 1..Len(calls[c].attempts) : calls[c].attempts[k].outcome = "timeout"
        /\ Len(calls[c].attempts) = 2

\* C28: a call of fetchPronouns that was suspended on a source when the cache was
\* cleared does not write the cache afterwards
C28_NoInsertAfterClear ==
    [][\A c \in Callers :
          (Pending(c) /\ calls[c].cleared /\ calls'[c] # calls[c]) =>
              myPronounCache' = myPronounCache
      ]_vars

(***************************************************************************)
(* index.ts: DuplicateTracker                                              *)
(***************************************************************************)
\* String.prototype.charCodeAt for letters, digits and the space
charCodeAt(c) ==
    IF c \in Range(UpperLetters) THEN 64 + (CHOOSE i \in 1..26 : UpperLetters[i] = c)
    ELSE IF c \in Range(LowerLetters) THEN 96 + (CHOOSE i \in 1..26 : LowerLetters[i] = c)
    ELSE IF c \in Range(Digits) THEN 47 + (CHOOSE i \in 1..10 : Digits[i] = c)
    ELSE 32

\* a 32-bit integer as its two 16-bit halves
HALF == 65536
ZeroWord == [hi |-> 0, lo |-> 0]

\* hash = ((hash << 5) - hash) + char; hash = hash & hash: 31 * hash + char in 32 bits
HashStep(hash, char) ==
    LET low == 31 * hash.lo + char
    IN [hi |-> (31 * hash.hi + (low \div HALF)) % HALF, lo |-> low % HALF]

RECURSIVE HashLoop(_, _, _)
HashLoop(text, i, hash) ==
    IF i >= Len(text) THEN hash
    ELSE HashLoop(text, i + 1, HashStep(hash, charCodeAt(text[i + 1])))

\* the sign of the 32-bit integer, and its magnitude as an unsigned word
IsNegative(word) == word.hi >= HALF \div 2
Magnitude(word) ==
    IF IsNegative(word)
    THEN [hi |-> (HALF - 1 - word.hi + (IF word.lo = 0 THEN 1 ELSE 0)) % HALF,
          lo |-> (HALF - word.lo) % HALF]
    ELSE word

RADIX == 36
Base36Digits == Digits \o LowerLetters

\* the digits of an unsigned word in base 36, most significant first
RECURSIVE Base36(_)
Base36(word) ==
    LET rest == (word.hi % RADIX) * HALF + word.lo
        quotient == [hi |-> word.hi \div RADIX, lo |-> rest \div RADIX]
        digit == <<Base36Digits[(rest % RADIX) + 1]>>
    IN IF quotient = ZeroWord THEN digit ELSE Base36(quotient) \o digit

\* Number.prototype.toString(36)
toString36(word) ==
    IF IsNegative(word) THEN <<"-">> \o Base36(Magnitude(word)) ELSE Base36(word)

hashMessage(text) == toString36(HashLoop(text, 0, ZeroWord))

\* an absent messageContent argument, and an absent messageHash
Absent == <<"undefined">>
\* if (messageContent), messageContent ? ... : undefined
Truthy(messageContent) == messageContent # Absent /\ messageContent # <<>>

\* a key that names the channel only
getKey_ChannelOnly(channelId, uid) == channelId \o <<":">>

getKey(channelId, uid) == channelId \o <<":">> \o uid

DefaultSettings ==
    [windowMinutes |-> 60, maxCorrectionsPerWindow |-> 2, cleanupIntervalMinutes |-> 30]

\* this.settings.windowMinutes * 60 * 1000
windowMs(s) == s.windowMinutes * 60 * 1000
intervalMs(s) == s.cleanupIntervalMinutes * 60 * 1000

\* a sweep that keeps a record for one window only
maxAgeMs_OneWindow(s) == windowMs(s)

maxAgeMs(s) == windowMs(s) * 2

EmptyStore == [k \in {} |-> <<>>]
\* this.corrections.get(key) || []
RecordsAt(store, key) == IF key \in DOMAIN store THEN store[key] ELSE <<>>
StoreSet(store, key, records) ==
    [k \in DOMAIN store \cup {key} |-> IF k = key THEN records ELSE store[k]]

\* a window that still holds a record aged exactly the window
recentCorrections_Inclusive(records, t, s) ==
    SelectSeq(records, LAMBDA record : t - record.timestamp <= windowMs(s))

\* records.filter(record => now - record.timestamp < windowMs)
recentCorrections(records, t, s) ==
    SelectSeq(records, LAMBDA record : t - record.timestamp < windowMs(s))

isDuplicate(store, s, t, channelId, uid, messageContent) ==
    LET records == RecordsAt(store, getKey(channelId, uid))
        recent == recentCorrections(records, t, s)
    IN IF Len(recent) >= s.maxCorrectionsPerWindow THEN TRUE
       ELSE IF Truthy(messageContent)
            THEN \E k \in 1..Len(recent) : recent[k].messageHash = hashMessage(messageContent)
            ELSE FALSE

\* (windowMinutes || this.settings.windowMinutes) * 60 * 1000, windowMinutes being
\* Absent when the caller leaves it out
getRecentCorrections(store, s, t, channelId, uid, windowMinutes) ==
    LET records == RecordsAt(store, getKey(channelId, uid))
        minutes == IF windowMinutes = Absent \/ windowMinutes = 0
                   THEN s.windowMinutes ELSE windowMinutes
    IN SelectSeq(records, LAMBDA record : t - record.timestamp < minutes * 60 * 1000)

addCorrection(store, t, channelId, uid, messageContent) ==
    LET key == getKey(channelId, uid)
        newRecord == [channelId |-> channelId, userId |-> uid, timestamp |-> t,
                      messageHash |-> IF Truthy(messageContent)
                                      THEN hashMessage(messageContent) ELSE Absent]
    IN StoreSet(store, key, Append(RecordsAt(store, key), newRecord))

\* the end of the loop shared by cleanupOldRecords, clearUserRecords and
\* clearChannelRecords: a key whose filtered list is empty is deleted
DeleteEmptyKeys(kept) ==
    [k \in {x \in DOMAIN kept : kept[x] # <<>>} |-> kept[k]]

RECURSIVE SumLen(_, _)
SumLen(store, keys) ==
    IF keys = {} THEN 0
    ELSE LET k == CHOOSE x \in keys : TRUE
         IN Len(store[k]) + SumLen(store, keys \ {k})

\* size()
size(store) == SumLen(store, DOMAIN store)

\* a sweep whose filter is the wrong way round: it keeps the old records
cleanupOldRecords_KeepsOld(store, t, s) ==
    DeleteEmptyKeys([k \in DOMAIN store |->
        SelectSeq(store[k], LAMBDA record : t - record.timestamp >= maxAgeMs(s))])

cleanupOldRecords(store, t, s) ==
    DeleteEmptyKeys([k \in DOMAIN store |->
        SelectSeq(store[k], LAMBDA record : t - record.timestamp < maxAgeMs(s))])

\* the filter without the deletion of emptied keys
clearUserRecords_KeepKeys(store, u) ==
    [k \in DOMAIN store |-> SelectSeq(store[k], LAMBDA record : record.userId # u)]

clearUserRecords(store, u) ==
    DeleteEmptyKeys([k \in DOMAIN store |->
        SelectSeq(store[k], LAMBDA record : record.userId # u)])

clearChannelRecords(store, ch) ==
    DeleteEmptyKeys([k \in DOMAIN store |->
        SelectSeq(store[k], LAMBDA record : record.channelId # ch)])

DupMaxRecords == 3
DupMaxBigTicks == 2

DupChannels == {<<"7">>, <<"8">>}
DupUsers == {<<"1">>, <<"2">>}
\* the keys used: two users of one channel, one user in two channels
DupPairs == {<<<<"7">>, <<"1">>>>, <<<<"7">>, <<"2">>>>, <<<<"8">>, <<"1">>>>}
\* the corrections recorded: <<channelId, userId, messageContent>>, the content being
\* none or one that hashes like "BB"
DupAdds ==
    {<<<<"7">>, <<"1">>, <<"A", "a">>>>, <<<<"7">>, <<"1">>, Absent>>,
     <<<<"7">>, <<"2">>, <<"A", "a">>>>, <<<<"8">>, <<"1">>, Absent>>}
\* the contents asked about: none, the empty one, one with the fingerprint of "Aa", one
\* whose hash leaves 32 bits
AskContents == {Absent, <<>>, <<"B", "B">>, <<"z", "z", "z", "z", "z", "z", "z">>}

\* the questions asked of isDuplicate: <<channelId, userId, messageContent>>
DupQuestions == {<<p[1], p[2], m>> : p \in DupPairs, m \in AskContents}
NoAnswers == [q \in DupQuestions |-> FALSE]

\* the last operation on the tracker, if it returned something: its name, the answers
\* of isDuplicate, the number of records removed, the argument of a clear operation
DupOp(op, answers, removed) ==
    [op |-> op, result |-> answers, removed |-> removed, arg |-> <<>>]
DupCleared(op, arg, removed) ==
    [op |-> op, result |-> NoAnswers, removed |-> removed, arg |-> arg]
NoDupOp == DupOp("none", NoAnswers, 0)

DupInit ==
    /\ now = 0
    /\ corrections = EmptyStore
    /\ settings = DefaultSettings
    /\ cleanupDue = intervalMs(settings)
    /\ dupOp = NoDupOp

\* isDuplicate is asked every question; the answers are kept
IsDuplicateCalls ==
    /\ dupOp' = DupOp("isDuplicate",
                      [q \in DupQuestions |->
                          isDuplicate(corrections, settings, now, q[1], q[2], q[3])], 0)
    /\ UNCHANGED <<now, corrections, settings, cleanupDue>>
    /\ UNCHANGED <<textVars, fetchVars, pluginVars>>

AddCorrectionCall(ch, u, m) ==
    /\ size(corrections) < DupMaxRecords
    /\ corrections' = addCorrection(corrections, now, ch, u, m)
    /\ dupOp' = NoDupOp
    /\ UNCHANGED <<now, settings, cleanupDue>>
    /\ UNCHANGED <<textVars, fetchVars, pluginVars>>

\* the interval timer of startCleanupTimer fires
CleanupTimerFires ==
    /\ now >= cleanupDue
    /\ corrections' = cleanupOldRecords(corrections, now, settings)
    /\ cleanupDue' = now + intervalMs(settings)
    /\ dupOp' = DupOp("cleanupOldRecords", NoAnswers, size(corrections) - size(corrections'))
    /\ UNCHANGED <<now, settings>>
    /\ UNCHANGED <<textVars, fetchVars, pluginVars>>

\* removedCount adds up, key by key, what the filter dropped
ClearUserRecordsCall(u) ==
    /\ corrections' = clearUserRecords(corrections, u)
    /\ dupOp' = DupCleared("clearUserRecords", u, size(corrections) - size(corrections'))
    /\ UNCHANGED <<now, settings, cleanupDue>>
    /\ UNCHANGED <<textVars, fetchVars, pluginVars>>

ClearChannelRecordsCall(ch) ==
    /\ corrections' = clearChannelRecords(corrections, ch)
    /\ dupOp' = DupCleared("clearChannelRecords", ch, size(corrections) - size(corrections'))
    /\ UNCHANGED <<now, settings, cleanupDue>>
    /\ UNCHANGED <<textVars, fetchVars, pluginVars>>

ClearCall ==
    /\ corrections' = EmptyStore
    /\ dupOp' = DupCleared("clear", <<>>, 0)
    /\ UNCHANGED <<now, settings, cleanupDue>>
    /\ UNCHANGED <<textVars, fetchVars, pluginVars>>

\* the clock advances by a millisecond past a multiple of the window, or by one window
DupTickSmall ==
    /\ now % windowMs(settings) = 0
    /\ now' = now + 1
    /\ dupOp' = NoDupOp
    /\ UNCHANGED <<corrections, settings, cleanupDue>>
    /\ UNCHANGED <<textVars, fetchVars, pluginVars>>

DupTickBig ==
    /\ now \div windowMs(settings) < DupMaxBigTicks
    /\ now' = now + windowMs(settings)
    /\ dupOp' = NoDupOp
    /\ UNCHANGED <<corrections, settings, cleanupDue>>
    /\ UNCHANGED <<textVars, fetchVars, pluginVars>>

DupNext ==
    \/ IsDuplicateCalls
    \/ \E a \in DupAdds : AddCorrectionCall(a[1], a[2], a[3])
    \/ CleanupTimerFires
    \/ \E u \in DupUsers : ClearUserRecordsCall(u)
    \/ \E ch \in DupChannels : ClearChannelRecordsCall(ch)
    \/ ClearCall
    \/ DupTickSmall
    \/ DupTickBig

(***************************************************************************)
(* Claims about the DuplicateTracker                                       *)
(***************************************************************************)
\* where the store holds the records of a channel and a user: <<key, index>> pairs
RecordSlots(store, ch, u) ==
    {p \in UNION {{<<k, i>> : i \in 1..Len(store[k])} : k \in DOMAIN store} :
        store[p[1]][p[2]].channelId = ch /\ store[p[1]][p[2]].userId = u}

\* those of them that are younger than the window at time t
InWindowSlots(store, ch, u, t, s) ==
    {p \in RecordSlots(store, ch, u) :
        t - store[p[1]][p[2]].timestamp < s.windowMinutes * 60 * 1000}

\* C8: isDuplicate answers true exactly when the in-window records of the key number
\* at least maxCorrectionsPerWindow, or a content is given and an in-window record of
\* the key carries its fingerprint; the call leaves the record store as it was
C8_IsDuplicateIffFullOrSameFingerprint ==
    [][dupOp'.op = "isDuplicate" =>
          /\ corrections' = corrections
          /\ \A q \in DupQuestions :
                LET inWindow == InWindowSlots(corrections, q[1], q[2], now, settings)
                IN dupOp'.result[q] <=>
                      \/ Cardinality(inWindow) >= settings.maxCorrectionsPerWindow
                      \/ /\ Truthy(q[3])
                         /\ \E p \in inWindow :
                               corrections[p[1]][p[2]].messageHash = hashMessage(q[3])
      ]_vars

\* isDuplicate answered true for a key below its maximum because of the fingerprint,
\* and false for the same key without a content, while that key also holds a record
\* that has left the window
C8_Witness ==
    /\ dupOp.op = "isDuplicate"
    /\ \E q \in DupQuestions :
          /\ dupOp.result[q] /\ ~dupOp.result[<<q[1], q[2], Absent>>]
          /\ Cardinality(InWindowSlots(corrections, q[1], q[2], now, settings)) = 1
          /\ Cardinality(RecordSlots(corrections, q[1], q[2])) = 2

\* C9: with maxCorrectionsPerWindow = 2 and two records added for a key, isDuplicate
\* (asked without a content) is true while both records are inside the window and false
\* once the window has elapsed for one of them, whatever the other keys hold
C9_DuplicateWindowBoundary ==
    (dupOp.op = "isDuplicate" /\ settings.maxCorrectionsPerWindow = 2) =>
        \A q \in DupQuestions :
            (~Truthy(q[3]) /\ Cardinality(RecordSlots(corrections, q[1], q[2])) = 2) =>
                (dupOp.result[q] <=>
                    \A p \in RecordSlots(corrections, q[1], q[2]) :
                        now - corrections[p[1]][p[2]].timestamp
                            < settings.windowMinutes * 60 * 1000)

\* a key has two records, one of them outside the window, and isDuplicate answered
\* false for it although another user of the same channel has a record in the window
C9_Witness ==
    /\ dupOp.op = "isDuplicate"
    /\ settings.maxCorrectionsPerWindow = 2
    /\ \E q \in DupQuestions :
          /\ ~Truthy(q[3]) /\ ~dupOp.result[q]
          /\ Cardinality(RecordSlots(corrections, q[1], q[2])) = 2
          /\ Cardinality(InWindowSlots(corrections, q[1], q[2], now, settings)) = 1
          /\ \E u \in DupUsers \ {q[2]} :
                InWindowSlots(corrections, q[1], u, now, settings) # {}

\* the records of a list that are younger than twice the window at time t
YoungerThanTwoWindows(records, t, s) ==
    SelectSeq(records, LAMBDA r : t - r.timestamp < 2 * (s.windowMinutes * 60 * 1000))

\* C10: a run of cleanupOldRecords leaves no record older than twice the window, keeps
\* every record younger than that, in its place, and leaves no key with an empty list
C10_SweepKeepsExactlyTheYoung ==
    [][dupOp'.op = "cleanupOldRecords" =>
          /\ \A k \in DOMAIN corrections' :
                /\ corrections'[k] # <<>>
                /\ \A i \in 1..Len(corrections'[k]) :
                      now - corrections'[k][i].timestamp
                          <= 2 * (settings.windowMinutes * 60 * 1000)
          /\ \A k \in DOMAIN corrections :
                YoungerThanTwoWindows(corrections[k], now, settings)
                    = RecordsAt(corrections', k)
      ]_vars

\* a sweep removed a record and kept one that had already left the window
C10_Witness ==
    /\ dupOp.op = "cleanupOldRecords" /\ dupOp.removed >= 1
    /\ \E k \in DOMAIN corrections : \E i \in 1..Len(corrections[k]) :
          now - corrections[k][i].timestamp >= windowMs(settings)

\* every place of the store: <<key, index>> pairs
AllSlots(store) == UNION {{<<k, i>> : i \in 1..Len(store[k])} : k \in DOMAIN store}

\* C26: after clearUserRecords(u) no record of user u remains and the records of other
\* users are as before; after clearChannelRecords(c) no record of channel c remains and
\* the records of other channels are as before; each returns the number of records it
\* removed; after clear() size() is 0; none leaves a key with an empty list
C26_ClearIsExact ==
    [][/\ dupOp'.op = "clearUserRecords" =>
             /\ \A p \in AllSlots(corrections') :
                   corrections'[p[1]][p[2]].userId # dupOp'.arg
             /\ \A k \in DOMAIN corrections :
                   SelectSeq(corrections[k], LAMBDA r : r.userId # dupOp'.arg)
                       = RecordsAt(corrections', k)
             /\ dupOp'.removed = Cardinality({p \in AllSlots(corrections) :
                                      corrections[p[1]][p[2]].userId = dupOp'.arg})
       /\ dupOp'.op = "clearChannelRecords" =>
             /\ \A p \in AllSlots(corrections') :
                   corrections'[p[1]][p[2]].channelId # dupOp'.arg
             /\ \A k \in DOMAIN corrections :
                   SelectSeq(corrections[k], LAMBDA r : r.channelId # dupOp'.arg)
                       = RecordsAt(corrections', k)
             /\ dupOp'.removed = Cardinality({p \in AllSlots(corrections) :
                                      corrections[p[1]][p[2]].channelId = dupOp'.arg})
       /\ dupOp'.op = "clear" => size(corrections') = 0
       /\ dupOp'.op \in {"clearUserRecords", "clearChannelRecords", "clear"} =>
             /\ DOMAIN corrections' \subseteq DOMAIN corrections
             /\ \A k \in DOMAIN corrections' : corrections'[k] # <<>>
      ]_vars

\* clearUserRecords removed two records, emptied a key and left another user's record
C26_Witness ==
    /\ dupOp.op = "clearUserRecords" /\ dupOp.removed = 2
    /\ corrections # EmptyStore
    /\ \E p \in AllSlots(corrections) : corrections[p[1]][p[2]].userId # dupOp.arg

\* C29: a run of cleanupOldRecords changes no answer of isDuplicate, for any key and
\* content, and no result of getRecentCorrections with the default window
C29_SweepInvisibleToDuplicateDecisions ==
    [][dupOp'.op = "cleanupOldRecords" =>
          /\ settings' = settings /\ now' = now
          /\ \A q \in DupQuestions :
                isDuplicate(corrections', settings, now, q[1], q[2], q[3])
                    = isDuplicate(corrections, settings, now, q[1], q[2], q[3])
          /\ \A ch \in DupChannels, u \in DupUsers :
                getRecentCorrections(corrections', settings, now, ch, u, Absent)
                    = getRecentCorrections(corrections, settings, now, ch, u, Absent)
      ]_vars

\* a sweep removed a record of a key that is at its limit with the records it kept
C29_Witness ==
    /\ dupOp.op = "cleanupOldRecords" /\ dupOp.removed >= 1
    /\ \E q \in DupQuestions :
          /\ isDuplicate(corrections, settings, now, q[1], q[2], Absent)
          /\ Len(getRecentCorrections(corrections, settings, now, q[1], q[2], Absent))
                = settings.maxCorrectionsPerWindow
          /\ size(corrections) = settings.maxCorrectionsPerWindow

(***************************************************************************)
(* index.ts: the plugin and its message interceptor                        *)
(***************************************************************************)
AUTO_CORRECT == "auto_correct"
BLOCK_AND_WARN == "block_and_warn"
ASK_FIRST == "ask_first"

\* channel.type === 1: a DM
DM_CHANNEL_TYPE == 1

\* UserStore.getCurrentUser()?.id
MyId == <<"0">>

\* ChannelStore: a guild text channel (a type other than 1) and a DM with user 1;
\* any other id is unknown
ChannelStore ==
    [c \in {<<"7">>, <<"9">>} |->
        IF c = <<"7">> THEN [type |-> 0, recipients |-> <<>>]
        ELSE [type |-> DM_CHANNEL_TYPE, recipients |-> <<MyId, <<"1">>>>]]

ContainsPronounWords ==
    {s_he, s_she, s_they, s_him, s_her, s_them, s_his, s_hers, s_their, s_himself,
     s_herself, s_themselves, s_themself}

containsPronouns(text) == WordMatchPositions(text, ContainsPronounWords) # <<>>

\* channel.recipients?.find(id => id !== myId), <<>> when there is none
FirstOther(recipients) ==
    LET others == SelectSeq(recipients, LAMBDA id : id # MyId)
    IN IF others = <<>> THEN <<>> ELSE <<others[1]>>

getUsersToCheck(channelId, text) ==
    IF channelId \notin DOMAIN ChannelStore THEN <<>>
    ELSE IF ChannelStore[channelId].type = DM_CHANNEL_TYPE
         THEN IF containsPronouns(text) THEN FirstOther(ChannelStore[channelId].recipients)
              ELSE <<>>
         ELSE extractMentions(text)

\* a source that answered with an error
FailedReply == <<"fail">>

\* fetchPronouns run to its return, every network source answering reply
RECURSIVE fetchLoop(_, _, _, _, _, _)
fetchLoop(cache, u, o, reply, t, k) ==
    IF k > Len(EffectiveSources(o)) THEN [pronouns |-> s_unspecified, cache |-> cache]
    ELSE LET answered == SourceKind(EffectiveSources(o)[k], o) = "network" /\ reply # FailedReply
             label == IF answered THEN normalizePronounsForMe(reply) ELSE s_unspecified
         IN IF IsUsable(label)
            THEN [pronouns |-> label, cache |-> CacheAfterReply(cache, u, label, t)]
            ELSE fetchLoop(cache, u, o, reply, t, k + 1)

fetchPronounsAwaited(cache, u, o, reply, t) ==
    IF IsFresh(CacheGet(cache, u), t)
    THEN [pronouns |-> CacheGet(cache, u).pronouns, cache |-> cache]
    ELSE fetchLoop(cache, u, o, reply, t, 1)

RECURSIVE MaxConfidence(_)
MaxConfidence(ms) ==
    IF Len(ms) = 1 THEN ms[1].confidence
    ELSE Max(ms[1].confidence, MaxConfidence(Tail(ms)))

\* the loop of checkForPronounMismatches from user k on: the corrections and the cache
RECURSIVE checkForPronounMismatches(_, _, _, _, _, _, _)
checkForPronounMismatches(text, users, k, o, cache, reply, t) ==
    IF k > Len(users) THEN [corrections |-> <<>>, cache |-> cache]
    ELSE LET fetched == fetchPronounsAwaited(cache, users[k],
                            [sources |-> o.pronounSources, hasCustomApiUrl |-> TRUE,
                             timeout |-> 0], reply, t)
             found == detectPronounMismatches(text, users[k], fetched.pronouns,
                            [skipQuotedText |-> o.skipQuotedText,
                             confidenceThreshold |-> o.confidenceThreshold])
             rest == checkForPronounMismatches(text, users, k + 1, o, fetched.cache, reply, t)
         IN IF found = <<>> THEN rest
            ELSE [rest EXCEPT !.corrections =
                     <<[userId |-> users[k], userPronouns |-> fetched.pronouns,
                        mismatches |-> found, confidence |-> MaxConfidence(found)]>> \o @]

\* the loop of autoCorrectMessage: each correction is applied to the text so far
RECURSIVE autoCorrectMessage(_, _, _)
autoCorrectMessage(correctedContent, found, k) ==
    IF k > Len(found) THEN correctedContent
    ELSE autoCorrectMessage(
            correctPronouns(correctedContent, found[k].mismatches).correctedText,
            found, k + 1)

MaxMessages == 3

PluginChannels == {<<"7">>, <<"9">>, <<"5">>}
PluginTexts == {<<"h", "e", " ", "i", "s", " ", "<", "@", "1", ">">>,
                <<"h", "i", " ", "<", "@", "1", ">">>,
                <<"h", "e", " ", "s", "a", "i", "d">>}
PluginReplies == {<<"s", "h">>, NoPronouns, FailedReply}
PluginModes == {AUTO_CORRECT, BLOCK_AND_WARN, ASK_FIRST}

\* what the listener did with the last message: the channel and the content as typed,
\* the number of users found with mismatches, the content of messageObj afterwards,
\* and cancelled when the listener returned false
NoDelivery == [channelId |-> <<>>, typed |-> <<>>, corrections |-> 0,
               content |-> <<>>, cancelled |-> FALSE]

PluginInit ==
    /\ now = 0
    /\ myPronounCache = EmptyCache
    /\ settings = DefaultSettings
    /\ pluginOptions \in [enabled : BOOLEAN, correctionMode : PluginModes,
                          pronounSources : {<<PRONOUNDB>>}, skipQuotedText : {TRUE},
                          confidenceThreshold : {80}]
    /\ stats = [totalCorrections |-> 0, autoCorrections |-> 0, blockedMessages |-> 0]
    /\ intercepted = 0
    /\ fired = <<>>
    /\ delivery = NoDelivery
    /\ inflight = <<>>

\* the content is rewritten and the total alone goes up
autoCorrectAndSend_TotalOnly(text, found, st) ==
    [content |-> autoCorrectMessage(text, found, 1), cancelled |-> FALSE,
     stats |-> [st EXCEPT !.totalCorrections = @ + 1]]

\* autoCorrectMessage: messageObj.content is rewritten, two counters go up, the
\* listener returns undefined
autoCorrectAndSend(text, found, st) ==
    [content |-> autoCorrectMessage(text, found, 1), cancelled |-> FALSE,
     stats |-> [st EXCEPT !.totalCorrections = @ + 1, !.autoCorrections = @ + 1]]

\* the content is left alone, the counters stay, the listener returns false
blockMessageAndWarn_NoCount(text, st) ==
    [content |-> text, cancelled |-> TRUE, stats |-> st]

\* the content is left alone, two counters go up, the listener returns false
blockMessageAndWarn(text, st) ==
    [content |-> text, cancelled |-> TRUE,
     stats |-> [st EXCEPT !.totalCorrections = @ + 1, !.blockedMessages = @ + 1]]

\* a toast announces the corrections, then autoCorrectMessage is awaited: nothing is
\* asked and no answer is waited for
askBeforeCorrection(text, found, st) == autoCorrectAndSend(text, found, st)

handleCorrections(text, found, mode, st) ==
    IF mode = AUTO_CORRECT THEN autoCorrectAndSend(text, found, st)
    ELSE IF mode = BLOCK_AND_WARN THEN blockMessageAndWarn(text, st)
    ELSE IF mode = ASK_FIRST THEN askBeforeCorrection(text, found, st)
    ELSE [content |-> text, cancelled |-> FALSE, stats |-> st]

\* interceptMyMessage from the corrections on: nothing found, the message goes out as
\* typed; otherwise handleCorrections decides
AfterCheck(channelId, text, found, handled, st, log, t) ==
    IF found = <<>>
    THEN [delivery |-> [channelId |-> channelId, typed |-> text, corrections |-> 0,
                        content |-> text, cancelled |-> FALSE],
          stats |-> st, fired |-> log]
    ELSE [delivery |-> [channelId |-> channelId, typed |-> text,
                        corrections |-> Len(found), content |-> handled.content,
                        cancelled |-> handled.cancelled],
          stats |-> handled.stats,
          fired |-> Append(log,
                       [channelId |-> channelId, at |-> t,
                        blocked |-> handled.cancelled,
                        users |-> {found[k].userId : k \in 1..Len(found)}])]

interceptMyMessage(channelId, text, found, o, st, log, t) ==
    AfterCheck(channelId, text, found,
               handleCorrections(text, found, o.correctionMode, st), st, log, t)

\* the pre-send listener runs for a message of mine: interceptMyMessage with all it
\* calls, every network source answering reply
InterceptMyMessage(channelId, text, reply) ==
    /\ intercepted < MaxMessages
    /\ intercepted' = intercepted + 1
    /\ LET users == IF pluginOptions.enabled /\ text # <<>>
                    THEN getUsersToCheck(channelId, text) ELSE <<>>
           checked == checkForPronounMismatches(text, users, 1, pluginOptions,
                                                myPronounCache, reply, now)
           done == interceptMyMessage(channelId, text, checked.corrections,
                                      pluginOptions, stats, fired, now)
       IN /\ myPronounCache' = checked.cache
          /\ delivery' = done.delivery
          /\ stats' = done.stats
          /\ fired' = done.fired
    /\ UNCHANGED <<now, pluginOptions, inflight, calls, fetchOptions>>
    /\ UNCHANGED <<textVars, dupVars>>

\* the pre-send listener is called for a message of mine and runs up to its first
\* suspension: it returns at once when the plugin is disabled, the content is empty or
\* nobody is to be checked; otherwise it waits for the pronoun lookups
StartIntercept(channelId, text) ==
    /\ intercepted < MaxMessages
    /\ intercepted' = intercepted + 1
    /\ LET users == IF pluginOptions.enabled /\ text # <<>>
                    THEN getUsersToCheck(channelId, text) ELSE <<>>
       IN IF users = <<>>
          THEN /\ delivery' = AfterCheck(channelId, text, <<>>, <<>>, stats, fired, now).delivery
               /\ UNCHANGED inflight
          ELSE /\ inflight' = Append(inflight,
                                     [channelId |-> channelId, text |-> text, users |-> users])
               /\ UNCHANGED delivery
    /\ UNCHANGED <<now, pluginOptions, stats, fired, fetchVars>>
    /\ UNCHANGED <<textVars, dupVars>>

\* the lookups of a suspended run are answered, every network source with reply: the
\* run resumes in checkForPronounMismatches and goes on to its return, reading the
\* options and the statistics as they are by now
ResumeIntercept(i, reply) ==
    /\ i \in 1..Len(inflight)
    /\ LET run == inflight[i]
           checked == checkForPronounMismatches(run.text, run.users, 1, pluginOptions,
                                                myPronounCache, reply, now)
           done == interceptMyMessage(run.channelId, run.text, checked.corrections,
                                      pluginOptions, stats, fired, now)
       IN /\ myPronounCache' = checked.cache
          /\ delivery' = done.delivery
          /\ stats' = done.stats
          /\ fired' = done.fired
    /\ inflight' = SubSeq(inflight, 1, i - 1) \o SubSeq(inflight, i + 1, Len(inflight))
    /\ UNCHANGED <<now, pluginOptions, intercepted, calls, fetchOptions>>
    /\ UNCHANGED <<textVars, dupVars>>

\* I change the plugin's settings: enabled and correctionMode
ChangeSettings(enabled, mode) ==
    /\ <<enabled, mode>> # <<pluginOptions.enabled, pluginOptions.correctionMode>>
    /\ pluginOptions' = [pluginOptions EXCEPT !.enabled = enabled, !.correctionMode = mode]
    /\ UNCHANGED <<now, stats, intercepted, fired, delivery, inflight, fetchVars>>
    /\ UNCHANGED <<textVars, dupVars>>

\* interceptions that overlap: a run may start, and the settings may change, while
\* others are suspended, and the suspended runs resume in any order
StatsNext ==
    \/ \E channelId \in {<<"7">>, <<"9">>}, text \in PluginTexts :
          StartIntercept(channelId, text)
    \/ \E i \in 1..MaxMessages, reply \in {<<"s", "h">>, FailedReply} :
          ResumeIntercept(i, reply)
    \/ \E enabled \in BOOLEAN, mode \in PluginModes : ChangeSettings(enabled, mode)

PluginNext ==
    \/ \E channelId \in PluginChannels, text \in PluginTexts, reply \in PluginReplies :
          InterceptMyMessage(channelId, text, reply)
    \/ DupTickSmall
    \/ DupTickBig

(***************************************************************************)
(* Claims about the plugin                                                 *)
(***************************************************************************)
\* the corrections that fired in a channel for a user within the window ending now
FiredInWindow(ch, u) ==
    {i \in 1..Len(fired) :
        /\ fired[i].channelId = ch
        /\ u \in fired[i].users
        /\ now - fired[i].at < settings.windowMinutes * 60 * 1000}

\* C7: the corrections that fire for one channel and one person within a window never
\* number more than maxCorrectionsPerWindow
C7_CorrectionsBoundedPerWindow ==
    \A ch \in PluginChannels, u \in FetchUsers :
        Cardinality(FiredInWindow(ch, u)) <= settings.maxCorrectionsPerWindow

\* the pronouns the directory holds for the other person of the DM
RecipientPronouns(channelId) ==
    CacheGet(myPronounCache, FirstOther(ChannelStore[channelId].recipients)[1]).pronouns

\* the last message was typed in a DM, mentions nobody and uses a pronoun outside the
\* set the recipient declared
DmMismatchTyped ==
    /\ delivery.channelId \in DOMAIN ChannelStore
    /\ ChannelStore[delivery.channelId].type = DM_CHANNEL_TYPE
    /\ extractMentions(delivery.typed) = <<>>
    /\ IsFresh(CacheGet(myPronounCache, <<"1">>), now)
    /\ RecipientPronouns(delivery.channelId) \in DOMAIN FLAT_PRONOUN_SETS
    /\ ~(PronounTokens(delivery.typed)
            \subseteq Range(FLAT_PRONOUN_SETS[RecipientPronouns(delivery.channelId)]))

\* C18: in a DM a message with a pronoun that mismatches the recipient's declared
\* pronouns is corrected although it mentions nobody: what is sent differs from what
\* was typed
C18_DmMessageIsCorrected ==
    (pluginOptions.enabled /\ pluginOptions.correctionMode = AUTO_CORRECT
        /\ DmMismatchTyped) => delivery.content # delivery.typed

\* C19: in BLOCK_AND_WARN mode, a message for which a checked user has a mismatch makes
\* the listener return false, keeps its content and adds exactly one to blockedMessages
\* and to totalCorrections; a message without a mismatch goes out as typed and no
\* counter changes
C19_BlockAndWarn ==
    [][(intercepted' = intercepted + 1 /\ pluginOptions.enabled
            /\ pluginOptions.correctionMode = BLOCK_AND_WARN) =>
          /\ delivery'.content = delivery'.typed
          /\ IF delivery'.corrections >= 1
             THEN /\ delivery'.cancelled
                  /\ stats'.blockedMessages = stats.blockedMessages + 1
                  /\ stats'.totalCorrections = stats.totalCorrections + 1
                  /\ stats'.autoCorrections = stats.autoCorrections
             ELSE /\ ~delivery'.cancelled
                  /\ stats' = stats
      ]_vars

\* one message was blocked and a later one went out as typed
C19_Witness ==
    /\ pluginOptions.enabled /\ pluginOptions.correctionMode = BLOCK_AND_WARN
    /\ stats.blockedMessages = 1 /\ stats.totalCorrections = 1
    /\ intercepted = 2
    /\ delivery.corrections = 0 /\ ~delivery.cancelled
    /\ delivery.content = delivery.typed /\ delivery.typed # <<>>

\* C20: in ASK_FIRST mode the content is modified only after the user approved the
\* corrections; the program has no step in which the user answers, so the message
\* stays as typed
C20_AskFirstWaitsForApproval ==
    (pluginOptions.enabled /\ pluginOptions.correctionMode = ASK_FIRST)
        => delivery.content = delivery.typed

\* messages of a guild channel that mention users 1 and 2, each mention ending a line
GroupTexts ==
    {<<"t", "h", "e", "m", " ", "<", "@", "1", ">", "\n", "<", "@", "2", ">">>,
     <<"h", "e", " ", "i", "s", " ", "<", "@", "1", ">", "\n", "<", "@", "2", ">">>,
     <<"h", "i", " ", "<", "@", "1", ">", "\n", "<", "@", "2", ">">>}

GroupNext ==
    \E channelId \in PluginChannels, text \in GroupTexts, reply \in PluginReplies :
        InterceptMyMessage(channelId, text, reply)

\* the decisions of the detector for every user the message mentions, each with the
\* pronouns the directory holds for that user
FlaggedFor(text, users, o) ==
    ConcatAll([k \in 1..Len(users) |->
        detectPronounMismatches(text, users[k], CacheGet(myPronounCache, users[k]).pronouns,
            [skipQuotedText |-> o.skipQuotedText,
             confidenceThreshold |-> o.confidenceThreshold])])

\* C27: when two or more mentioned users each have mismatches, the content that
\* autoCorrectMessage leaves has every flagged token of every user replaced by its
\* replacement and no other character changed
C27_EveryUsersTokensReplaced ==
    (pluginOptions.enabled /\ pluginOptions.correctionMode = AUTO_CORRECT
        /\ delivery.corrections >= 2) =>
        delivery.content =
            SubstituteAll(delivery.typed,
                FlaggedFor(delivery.typed, extractMentions(delivery.typed), pluginOptions), 0)

\* C30: totalCorrections = autoCorrections + blockedMessages at all times, overlapping
\* interceptions included; no counter ever decreases; and a step changes a counter only
\* if it completes an interception that began with the plugin enabled and detected a
\* mismatch
C30_StatisticsInvariant ==
    /\ [](stats.totalCorrections = stats.autoCorrections + stats.blockedMessages)
    /\ [][/\ stats'.totalCorrections >= stats.totalCorrections
          /\ stats'.autoCorrections >= stats.autoCorrections
          /\ stats'.blockedMessages >= stats.blockedMessages
          /\ stats' # stats =>
                /\ Len(inflight') = Len(inflight) - 1
                /\ delivery'.corrections >= 1
          /\ intercepted' = intercepted + 1 => stats' = stats
        ]_vars

\* one message was corrected and one in another channel blocked while a third run is
\* suspended
C30_Witness ==
    /\ stats.autoCorrections >= 1 /\ stats.blockedMessages >= 1
    /\ Len(fired) = 2 /\ fired[1].channelId # fired[2].channelId
    /\ inflight # <<>>

(***************************************************************************)
(* Specifications                                                          *)
(***************************************************************************)
TextIdle ==
    /\ content = <<>> /\ userId = <<>> /\ userPronouns = <<>>
    /\ options = [skipQuotedText |-> FALSE, confidenceThreshold |-> 0,
                  contextAwareness |-> FALSE, requireConfidence |-> 0]
    /\ tpc = "off" /\ mismatches = <<>> /\ rewrite = NoRewrite
    /\ analysis = NoAnalysis /\ verdict = NoVerdict /\ lastIndex = ZeroLastIndex

FetchIdle ==
    /\ now = 0 /\ myPronounCache = EmptyCache
    /\ calls = [c \in Callers |-> IdleCall]
    /\ fetchOptions = [sources |-> AbsentSources, hasCustomApiUrl |-> FALSE, timeout |-> 0]

DupIdle ==
    /\ corrections = EmptyStore /\ settings = DefaultSettings
    /\ cleanupDue = intervalMs(DefaultSettings)
    /\ dupOp = NoDupOp

PluginIdle ==
    /\ pluginOptions = [enabled |-> FALSE, correctionMode |-> AUTO_CORRECT,
                        pronounSources |-> <<PRONOUNDB>>, skipQuotedText |-> TRUE,
                        confidenceThreshold |-> 80]
    /\ stats = [totalCorrections |-> 0, autoCorrections |-> 0, blockedMessages |-> 0]
    /\ intercepted = 0 /\ fired = <<>> /\ delivery = NoDelivery /\ inflight = <<>>

\* one message through the detector and the rewriter, or the scanner and the resolver
TextStart == TextInit /\ FetchIdle /\ DupIdle /\ PluginIdle
SpecText == TextStart /\ [][TextNext]_vars

\* one session in which texts are scanned one after another
ScanStart == TextIdle /\ FetchIdle /\ DupIdle /\ PluginIdle
SpecScan == ScanStart /\ [][ScanNext]_vars

\* one message with ignorable regions through the detector and the rewriter, or the
\* scanner and the resolver
StripStart == StripInit /\ FetchIdle /\ DupIdle /\ PluginIdle
SpecStrip == StripStart /\ [][TextNext]_vars

\* correctPronouns applied to a text and a list of decisions
RewriteStart == RewriteInit /\ FetchIdle /\ DupIdle /\ PluginIdle
SpecRewrite == RewriteStart /\ [][RewriteNext]_vars

\* one message through the detector or the resolver under every confidence floor
FloorStart == FloorInit /\ FetchIdle /\ DupIdle /\ PluginIdle
SpecFloor == FloorStart /\ [][TextNext]_vars

\* one message that mentions the user more than once
MentionsStart == MentionsInit /\ FetchIdle /\ DupIdle /\ PluginIdle
SpecMentions == MentionsStart /\ [][TextNext]_vars

\* the plugin intercepting messages that mention two users
GroupStart == TextIdle /\ FetchIdle /\ DupIdle /\ PluginInit
SpecGroup == GroupStart /\ [][GroupNext]_vars

\* concurrent calls of fetchPronouns, the clock and clearMyPronounCache
FetchStart == FetchInit /\ TextIdle /\ DupIdle /\ PluginIdle
SpecFetch == FetchStart /\ [][FetchNext]_vars

\* the same with a clock that keeps going, timers that fire and promises that are
\* resumed once settled; a network source need never answer
FetchFairness ==
    /\ WF_vars(TickBig)
    /\ \A c \in Callers :
          /\ WF_vars(SourceTimeout(c))
          /\ WF_vars(SourceThrows(c))
          /\ WF_vars(SourceUnconfigured(c))
SpecFetchLive == SpecFetch /\ FetchFairness

\* a DuplicateTracker, its callers, its cleanup timer and the clock
DupStart == TextIdle /\ FetchIdle /\ PluginIdle /\ DupInit
SpecDup == DupStart /\ [][DupNext]_vars

\* the plugin intercepting the messages I send, and the clock
PluginStart == TextIdle /\ FetchIdle /\ DupIdle /\ PluginInit
\* overlapping interceptions under changing settings
StatsStart == TextIdle /\ FetchIdle /\ DupIdle /\ PluginInit
SpecStats == StatsStart /\ [][StatsNext]_vars
SpecPlugin == PluginStart /\ [][PluginNext]_vars
=============================================================================
